---- MODULE Spec2Model ----
(***************************************************************************)
(* The deterministic script compiler of app/agentic_script_agent.py:       *)
(* generate_script_payload, _build_deterministic_payload, persist_payload  *)
(* and the text helpers they use.                                          *)
(*                                                                         *)
(* A Python str is modelled as a sequence of one-character strings, so     *)
(* that strip, lower, split, substring search and the regular expressions  *)
(* of the source are computed character by character.  None and "" are     *)
(* both the empty sequence: the source only ever tests them with `or`.     *)
(***************************************************************************)
EXTENDS Integers, Sequences, FiniteSets, TLC

\* ---------------------------------------------------------------------
\* Bounds of the model
\* ---------------------------------------------------------------------
MaxSteps == 3

MaxFiles == 3

MaxDocs == 3

MaxRuns == 3

\* ---------------------------------------------------------------------
\* Characters and the str methods used by the source
\* ---------------------------------------------------------------------
UpperChars == <<"A","B","C","D","E","F","G","H","I","J","K","L","M","N","O","P","Q","R","S","T","U","V","W","X","Y","Z">>

LowerChars == <<"a","b","c","d","e","f","g","h","i","j","k","l","m","n","o","p","q","r","s","t","u","v","w","x","y","z">>

DigitChars == <<"0","1","2","3","4","5","6","7","8","9">>

Range(s) == {s[i] : i \in 1..Len(s)}

UpperSet == Range(UpperChars)

LowerSet == Range(LowerChars)

DigitSet == Range(DigitChars)

SpaceSet == {" ", "\t", "\n", "\r"}

SetMin(S) == CHOOSE x \in S : \A y \in S : x <= y

SetMax(S) == CHOOSE x \in S : \A y \in S : x >= y

LowerChar(c) ==
    IF c \in UpperSet
    THEN LowerChars[CHOOSE i \in 1..Len(UpperChars) : UpperChars[i] = c]
    ELSE c

UpperChar(c) ==
    IF c \in LowerSet
    THEN UpperChars[CHOOSE i \in 1..Len(LowerChars) : LowerChars[i] = c]
    ELSE c

\* str.lower()
Lower(s) == [i \in 1..Len(s) |-> LowerChar(s[i])]

\* str.strip()
Strip(s) ==
    LET keep == {i \in 1..Len(s) : s[i] \notin SpaceSet}
    IN IF keep = {} THEN <<>> ELSE SubSeq(s, SetMin(keep), SetMax(keep))

\* str.find(sub) + 1: the 1-based index of the first occurrence, 0 if none
IndexOf(s, sub) ==
    LET hits == {i \in 1..(Len(s) - Len(sub) + 1) : SubSeq(s, i, i + Len(sub) - 1) = sub}
    IN IF hits = {} THEN 0 ELSE SetMin(hits)

\* `sub in s`
Contains(s, sub) == Len(sub) = 0 \/ IndexOf(s, sub) # 0

\* str.startswith(prefix)
StartsWith(s, prefix) ==
    Len(s) >= Len(prefix) /\ SubSeq(s, 1, Len(prefix)) = prefix

\* str.isdigit(): non-empty and all digits
IsDigitStr(s) == Len(s) > 0 /\ \A i \in 1..Len(s) : s[i] \in DigitSet

\* str.split(c): every segment between occurrences of the character c
RECURSIVE Split(_, _)
Split(s, c) ==
    LET k == IndexOf(s, <<c>>)
    IN IF k = 0 THEN <<s>>
       ELSE <<SubSeq(s, 1, k - 1)>> \o Split(SubSeq(s, k + 1, Len(s)), c)

\* str.split(c, 1): at most two parts
SplitOnce(s, c) ==
    LET k == IndexOf(s, <<c>>)
    IN IF k = 0 THEN <<s>>
       ELSE <<SubSeq(s, 1, k - 1), SubSeq(s, k + 1, Len(s))>>

\* str(n) for a natural number
RECURSIVE NatStr(_)
NatStr(n) ==
    IF n < 10 THEN <<DigitChars[n + 1]>>
    ELSE NatStr(n \div 10) \o <<DigitChars[(n % 10) + 1]>>

\* "|".join(parts) and friends
RECURSIVE Join(_, _)
Join(parts, sep) ==
    IF Len(parts) = 0 THEN <<>>
    ELSE IF Len(parts) = 1 THEN parts[1]
    ELSE parts[1] \o sep \o Join(Tail(parts), sep)

\* re.sub(r"\s+", " ", s)
RECURSIVE CollapseSpaces(_)
CollapseSpaces(s) ==
    IF Len(s) = 0 THEN <<>>
    ELSE IF s[1] \in SpaceSet
         THEN IF Len(s) > 1 /\ s[2] \in SpaceSet
              THEN CollapseSpaces(Tail(s))
              ELSE <<" ">> \o CollapseSpaces(Tail(s))
         ELSE <<s[1]>> \o CollapseSpaces(Tail(s))

\* filter of a sequence by a set of allowed elements
RECURSIVE DropChars(_, _)
DropChars(s, bad) ==
    IF Len(s) = 0 THEN <<>>
    ELSE IF s[1] \in bad THEN DropChars(Tail(s), bad)
    ELSE <<s[1]>> \o DropChars(Tail(s), bad)

\* ---------------------------------------------------------------------
\* _to_camel_case
\* ---------------------------------------------------------------------
AlnumLowerSet == LowerSet \cup DigitSet

\* re.sub(r"[^a-z0-9]+(.)?", upper of group 1, cleaned)
RECURSIVE CamelJoin(_, _)
CamelJoin(s, upperNext) ==
    IF Len(s) = 0 THEN <<>>
    ELSE IF s[1] \notin AlnumLowerSet THEN CamelJoin(Tail(s), TRUE)
    ELSE <<IF upperNext THEN UpperChar(s[1]) ELSE s[1]>> \o CamelJoin(Tail(s), FALSE)

to_camel_case(value) ==
    IF Len(value) = 0 THEN <<>>
    ELSE LET quoted  == [i \in 1..Len(value) |->
                           IF value[i] \in {"'", "\"", "_"} THEN " " ELSE value[i]]
             cleaned == Lower(Strip(CollapseSpaces(quoted)))
         IN IF Len(cleaned) = 0 THEN <<>> ELSE CamelJoin(cleaned, FALSE)

\* ---------------------------------------------------------------------
\* _normalize_selector
\* ---------------------------------------------------------------------
StructureMarkers ==
    { <<" ",">"," ">>, <<":","n","t","h","-","c","h","i","l","d","(">>, <<":","n","t","h","-","o","f","-","t","y","p","e","(">>, <<" ","+"," ">>, <<" ","~"," ">> }

CutSet == {" ", "\t", "\r", "\n", ">", "+", "~", ",", ".", "["}

CombinatorSet == {">", "+", "~", ","}

WordSet == LowerSet \cup UpperSet \cup DigitSet \cup {"_", "-"}

\* fragment.replace('"', r'\"')
RECURSIVE EscapeQuotes(_)
EscapeQuotes(s) ==
    IF Len(s) = 0 THEN <<>>
    ELSE IF s[1] = "\"" THEN <<"\\", "\"">> \o EscapeQuotes(Tail(s))
    ELSE <<s[1]>> \o EscapeQuotes(Tail(s))

\* re.sub(r"\|[a-zA-Z][\w-]*", "", raw)
RECURSIVE DropNamespaces(_, _)
DropNamespaces(s, inside) ==
    IF Len(s) = 0 THEN <<>>
    ELSE IF inside /\ s[1] \in WordSet THEN DropNamespaces(Tail(s), TRUE)
    ELSE IF s[1] = "|" /\ Len(s) > 1 /\ s[2] \in (LowerSet \cup UpperSet)
         THEN DropNamespaces(Tail(s), TRUE)
    ELSE <<s[1]>> \o DropNamespaces(Tail(s), FALSE)

\* re.sub(r"\s*([>+~,])\s*", r"\1", s) applied to whitespace-collapsed text
RECURSIVE TightenCombinators(_, _)
TightenCombinators(s, afterCombinator) ==
    IF Len(s) = 0 THEN <<>>
    ELSE IF s[1] \in SpaceSet
              /\ (afterCombinator \/ (Len(s) > 1 /\ s[2] \in CombinatorSet))
         THEN TightenCombinators(Tail(s), afterCombinator)
    ELSE <<s[1]>> \o TightenCombinators(Tail(s), s[1] \in CombinatorSet)

\* variant: the id rewrite ignores has_structure
normalize_selector_id_first(selector) ==
    IF Len(selector) = 0 THEN <<>>
    ELSE
    LET raw == Strip(selector)
        hash_index == IndexOf(raw, <<"#">>)
        rest == SubSeq(raw, hash_index + 1, Len(raw))
        cuts == {i \in 1..Len(rest) : rest[i] \in CutSet}
        fragment == Strip(IF cuts = {} THEN rest ELSE SubSeq(rest, 1, SetMin(cuts) - 1))
        normalized == Strip(TightenCombinators(
                          CollapseSpaces(DropNamespaces(raw, FALSE)), FALSE))
    IN IF hash_index # 0 /\ Len(fragment) > 0
       THEN <<"x","p","a","t","h","=","/","/","*","[","@","i","d","=","\"">> \o EscapeQuotes(fragment) \o <<"\"","]">>
       ELSE normalized

normalize_selector(selector) ==
    IF Len(selector) = 0 THEN <<>>
    ELSE
    LET raw == Strip(selector)
        has_structure == \E marker \in StructureMarkers : Contains(raw, marker)
        hash_index == IndexOf(raw, <<"#">>)
        rest == SubSeq(raw, hash_index + 1, Len(raw))
        cuts == {i \in 1..Len(rest) : rest[i] \in CutSet}
        fragment == Strip(IF cuts = {} THEN rest ELSE SubSeq(rest, 1, SetMin(cuts) - 1))
        normalized == Strip(TightenCombinators(
                          CollapseSpaces(DropNamespaces(raw, FALSE)), FALSE))
    IN IF hash_index # 0 /\ ~has_structure /\ Len(fragment) > 0
       THEN <<"x","p","a","t","h","=","/","/","*","[","@","i","d","=","\"">> \o EscapeQuotes(fragment) \o <<"\"","]">>
       ELSE normalized

\* ---------------------------------------------------------------------
\* _extract_data_value, _extract_data_key, _step_signature
\* ---------------------------------------------------------------------
extract_data_value(step) ==
    LET trimmed == Strip(step.data)
    IN IF Len(trimmed) = 0 THEN <<>>
       ELSE IF Contains(trimmed, <<":">>) THEN Strip(SplitOnce(trimmed, ":")[2])
       ELSE trimmed

KeyClassSet == LowerSet \cup UpperSet \cup DigitSet \cup {" ", "_", "-"}

\* number of whitespace characters of s starting at position j
SpaceRun(s, j) ==
    LET stops == {k \in j..Len(s) : s[k] \notin SpaceSet}
    IN IF j > Len(s) THEN 0
       ELSE IF stops = {} THEN Len(s) - j + 1 ELSE SetMin(stops) - j

\* last position of the run of [a-z0-9 _-] characters that starts at j
ClassRunEnd(s, j) ==
    LET stops == {k \in j..Len(s) : s[k] \notin KeyClassSet}
    IN IF stops = {} THEN Len(s) ELSE SetMin(stops) - 1

\* re.search(r"enter\s+([a-z0-9 _-]+)", text, re.IGNORECASE) anchored at i:
\* the start of group 1, or 0 when the pattern does not match at i.  \s+ is
\* greedy and gives characters back until the class matches.
EnterGroupStart(s, i) ==
    LET j  == i + 5
        w  == SpaceRun(s, j)
        ks == {k \in 1..w : j + k <= Len(s) /\ s[j + k] \in KeyClassSet}
    IN IF i + 4 <= Len(s) /\ Lower(SubSeq(s, i, i + 4)) = <<"e","n","t","e","r">> /\ ks # {}
       THEN j + SetMax(ks) ELSE 0

extract_data_key(step) ==
    IF Contains(step.data, <<":">>)
    THEN Strip(SplitOnce(step.data, ":")[1])
    ELSE LET text == Strip(step.navigation)
             at   == {i \in 1..Len(text) : EnterGroupStart(text, i) # 0}
         IN IF at = {} THEN <<>>
            ELSE LET g == EnterGroupStart(text, SetMin(at))
                 IN Strip(SubSeq(text, g, ClassRunEnd(text, g)))

step_signature(step) ==
    Join(<<Lower(Strip(step.action)), Lower(Strip(step.navigation)),
           Lower(Strip(step.data))>>, <<"|">>)

\* ---------------------------------------------------------------------
\* _extract_preview_signatures.  A preview is modelled by its splitlines():
\* the empty preview is the empty sequence of lines.
\* ---------------------------------------------------------------------
NoSignatures == [none |-> TRUE, sigs |-> {}]

\* lines 145-148: drop a leading "<digit...> " token
StripOrdinal(line) ==
    IF line[1] \in DigitSet
    THEN LET parts == SplitOnce(line, " ")
         IN IF Len(parts) = 2 THEN Strip(parts[2]) ELSE line
    ELSE line

\* lines 141-162 for one line: <<signature>> when the line parses, <<>> when skipped
PreviewLineSignature(raw_line) ==
    LET stripped == Strip(raw_line)
    IN IF Len(stripped) = 0 THEN <<>>
       ELSE LET line == StripOrdinal(stripped)
            IN IF ~Contains(line, <<"|">>) THEN <<>>
               ELSE LET parts    == Split(line, "|")
                        segments == [i \in 1..Len(parts) |-> Lower(Strip(parts[i]))]
                        action   == segments[1]
                        navigation == IF Len(segments) > 1 THEN segments[2] ELSE <<>>
                        tagged   == {i \in 3..Len(segments) : StartsWith(segments[i], <<"d","a","t","a",":">>)}
                        data_value == IF tagged = {} THEN <<>>
                                      ELSE Strip(SplitOnce(segments[SetMax(tagged)], ":")[2])
                    IN << Join(<<action, navigation, data_value>>, <<"|">>) >>

extract_preview_signatures(preview) ==
    IF Len(preview) = 0 THEN NoSignatures
    ELSE LET parsed == {i \in 1..Len(preview) : Len(PreviewLineSignature(preview[i])) > 0}
         IN IF Cardinality(parsed) < 2 THEN NoSignatures
            ELSE [none |-> FALSE,
                  sigs |-> {PreviewLineSignature(preview[i])[1] : i \in parsed}]

\* ---------------------------------------------------------------------
\* _normalize_for_match, _extract_preview_phrases
\* ---------------------------------------------------------------------
normalize_for_match(text) ==
    DropChars(CollapseSpaces(Lower(Strip(text))), {"'", "\""})

\* line 191: `A and B if C else D` parses as `(A and B) if C else D`
OrdinalTest(parts) ==
    IF Len(parts[1]) > 0 /\ parts[1][Len(parts[1])] = "."
    THEN Len(parts) = 2 /\ IsDigitStr(SubSeq(parts[1], 1, Len(parts[1]) - 1))
    ELSE IsDigitStr(parts[1])

\* lines 184-200 for one line: the phrases it adds, and whether parts[1]
\* is read from a one-element list (IndexError)
PreviewLinePhrases(raw_line) ==
    LET stripped == Strip(raw_line)
    IN IF Len(stripped) = 0 THEN [error |-> FALSE, phrases |-> {}]
       ELSE LET parts  == SplitOnce(stripped, " ")
                renumber == stripped[1] \in DigitSet /\ OrdinalTest(parts)
            IN IF renumber /\ Len(parts) < 2 THEN [error |-> TRUE, phrases |-> {}]
               ELSE LET line == IF renumber THEN Strip(parts[2]) ELSE stripped
                        segs == Split(line, "|")
                    IN [error |-> FALSE,
                        phrases |->
                          IF Contains(line, <<"|">>)
                          THEN {normalize_for_match(Strip(segs[1])),
                                normalize_for_match(Strip(segs[2]))}
                          ELSE {normalize_for_match(line)}]

extract_preview_phrases(preview) ==
    LET per_line == [i \in 1..Len(preview) |-> PreviewLinePhrases(preview[i])]
    IN [error |-> \E i \in 1..Len(preview) : per_line[i].error,
        phrases |-> {p \in UNION {per_line[i].phrases : i \in 1..Len(preview)} : Len(p) > 0}]

\* _matches_phrase, lines 1286-1296
matches_phrase(step, preview_phrases) ==
    LET nav == normalize_for_match(
                 IF Len(step.navigation) > 0 THEN step.navigation ELSE step.action)
    IN Len(nav) > 0
       /\ \E phrase \in preview_phrases :
             Len(phrase) > 0 /\ (Contains(nav, phrase) \/ Contains(phrase, nav))

\* ---------------------------------------------------------------------
\* _steps_from_vector_docs: the step list of a flow from the documents of
\* the vector store, in whatever order the store returns them
\* ---------------------------------------------------------------------
\* lines 744-780: steps_map after the documents docs[1..n], and the
\* original URL carried over from the documents seen so far
RECURSIVE StepsMap(_, _)
StepsMap(docs, n) ==
    IF n = 0 THEN [map |-> {}, url |-> <<>>]
    ELSE LET before == StepsMap(docs, n - 1)
             d      == docs[n]
             url    == IF Len(d.original_url) > 0 THEN d.original_url ELSE before.url
             step   == [step |-> d.step_index,
                        action |-> Strip(d.action),
                        navigation |-> Strip(d.navigation),
                        data |-> Strip(d.data),
                        locators |-> d.locators,
                        element |-> d.element,
                        original_url |-> url]
         IN [map |-> {s \in before.map : s.step # d.step_index} \cup {step},
             url |-> url]

\* line 781: [steps_map[idx] for idx in sorted(steps_map)]
RECURSIVE SortedByStep(_)
SortedByStep(map) ==
    IF map = {} THEN <<>>
    ELSE LET first == CHOOSE s \in map : \A t \in map : s.step <= t.step
         IN <<first>> \o SortedByStep(map \ {first})

\* the steps of steps_map in the order their documents were listed
RECURSIVE InArrivalOrder(_, _, _)
InArrivalOrder(docs, map, n) ==
    IF n > Len(docs) THEN <<>>
    ELSE (IF \A m \in (n + 1)..Len(docs) : docs[m].step_index # docs[n].step_index
          THEN <<CHOOSE s \in map : s.step = docs[n].step_index>> ELSE <<>>)
         \o InArrivalOrder(docs, map, n + 1)

\* variant: line 781 returns list(steps_map.values()) without sorting
steps_in_arrival_order(docs) == InArrivalOrder(docs, StepsMap(docs, Len(docs)).map, 1)

steps_from_vector_docs(docs) == SortedByStep(StepsMap(docs, Len(docs)).map)

\* ---------------------------------------------------------------------
\* Selection over sequences (list comprehensions keep the list order)
\* ---------------------------------------------------------------------
RECURSIVE SelectIdx(_, _, _)
SelectIdx(s, keep, n) ==
    IF n > Len(s) THEN <<>>
    ELSE (IF n \in keep THEN <<s[n]>> ELSE <<>>) \o SelectIdx(s, keep, n + 1)

\* [step for step in steps if _step_signature(step) in sigs]
FilterBySignature(steps, sigs) ==
    SelectIdx(steps, {i \in 1..Len(steps) : step_signature(steps[i]) \in sigs}, 1)

\* variant: the phrase filter lets every step through
keep_every_step(steps, phrases) == steps

\* [s for s in steps if _matches_phrase(s)]
FilterByPhrase(steps, phrases) ==
    SelectIdx(steps, {i \in 1..Len(steps) : matches_phrase(steps[i], phrases)}, 1)

\* a or b or ... or '': the first non-empty candidate
RECURSIVE FirstNonEmpty(_)
FirstNonEmpty(cands) ==
    IF Len(cands) = 0 THEN <<>>
    ELSE IF Len(cands[1]) > 0 THEN cands[1] ELSE FirstNonEmpty(Tail(cands))

\* ---------------------------------------------------------------------
\* Locator resolution, symbol derivation, login diversion (loop body)
\* ---------------------------------------------------------------------
\* lines 1390-1407
resolve_selector(step) ==
    LET loc == step.locators
        own == normalize_selector(FirstNonEmpty(
                 <<loc.css, loc.playwright, loc.stable, loc.xpath, loc.raw_xpath, loc.selector>>))
        el  == step.element
        nested == normalize_selector(FirstNonEmpty(
                 <<el.css, el.playwright, el.stable, el.xpath, el.raw_xpath>>))
    IN IF Len(own) > 0 THEN own ELSE nested

\* variant: the loop of lines 1429-1431 is missing
bare_name(base, used) == base

\* lines 1427-1431: the bare name, else the first free base2, base3, ...
UniqueName(base, used) ==
    IF base \notin used THEN base
    ELSE LET n == SetMin({k \in 2..(Cardinality(used) + 2) : (base \o NatStr(k)) \notin used})
         IN base \o NatStr(n)

\* lines 1418-1426; index is the 0-based position in effective_steps
base_key(step, index) ==
    LET loc == step.locators
        positional == <<"s","t","e","p">> \o NatStr(index + 1)
        base_name  == FirstNonEmpty(<<loc.name, loc.title, loc.labels,
                                      step.navigation, step.action, positional>>)
        camel == to_camel_case(base_name)
    IN IF Len(camel) > 0 THEN camel ELSE positional

login_key_candidates ==
    { <<"u","s","e","r","n","a","m","e">>, <<"u","s","e","r","i","d">>, <<"u","s","e","r">>, <<"s","i","g","n","i","n">>, <<"s","i","g","n","_","i","n">>, <<"p","a","s","s","w","o","r","d">>,
      <<"e","n","t","e","r","p","a","s","s","c","o","d","e">>, <<"p","a","s","s","c","o","d","e">>, <<"v","e","r","i","f","y">> }

login_keywords ==
    { <<"u","s","e","r"," ","n","a","m","e">>, <<"u","s","e","r","n","a","m","e">>, <<"p","a","s","s","w","o","r","d">>, <<"s","i","g","n"," ","i","n">>, <<"s","i","g","n","i","n">>,
      <<"p","a","s","s","c","o","d","e">>, <<"v","e","r","i","f","y">>, <<"l","o","g","i","n"," ","p","a","g","e">> }

\* variant: the test of line 1440 for a discovered login page is missing
diverted_by_keyword_alone(login_page_file, step, key) ==
    \/ \E term \in login_keywords : Contains(Lower(step.navigation), term)
    \/ \E candidate \in login_key_candidates : Contains(Lower(key), candidate)

\* lines 1440-1452
handled_by_login(login_page_file, step, key) ==
    /\ login_page_file
    /\ \/ \E term \in login_keywords : Contains(Lower(step.navigation), term)
       \/ \E candidate \in login_key_candidates : Contains(Lower(key), candidate)

\* ---------------------------------------------------------------------
\* Data binding (lines 1468-1501)
\* ---------------------------------------------------------------------
action_category(step) ==
    IF \/ Contains(Lower(step.action), <<"s","e","l","e","c","t">>)
       \/ Contains(Lower(step.navigation), <<"d","r","o","p","d","o","w","n">>)
       \/ Contains(Lower(step.navigation), <<"c","h","o","o","s","e">>)
    THEN "select" ELSE "fill"

CapFirst(s) == IF Len(s) = 0 THEN s ELSE <<UpperChar(s[1])>> \o Tail(s)

method_candidate(step, key) ==
    LET data_key == extract_data_key(step)
        suffix   == FirstNonEmpty(<<to_camel_case(data_key),
                                    to_camel_case(step.navigation), key>>)
        prefix   == IF action_category(step) # "select" THEN <<"s","e","t">> ELSE <<"s","e","l","e","c","t">>
    IN prefix \o CapFirst(suffix)

\* re.sub(r'[^a-z0-9]+', '', data_key.lower()); also normaliseDataKey of the page
normalise_data_key(data_key) ==
    LET low == Lower(data_key)
    IN SelectIdx(low, {i \in 1..Len(low) : low[i] \in AlnumLowerSet}, 1)

\* ---------------------------------------------------------------------
\* Recorded documents, previews and framework profiles the runs draw from
\* ---------------------------------------------------------------------
NoLocators ==
    [css |-> <<>>, playwright |-> <<>>, stable |-> <<>>, xpath |-> <<>>,
     raw_xpath |-> <<>>, selector |-> <<>>, name |-> <<>>, title |-> <<>>,
     labels |-> <<>>]

NoElement ==
    [css |-> <<>>, playwright |-> <<>>, stable |-> <<>>, xpath |-> <<>>,
     raw_xpath |-> <<>>]

Css(sel) == [NoLocators EXCEPT !.css = sel]

Recorded(action, navigation, data, locators, element, url) ==
    [action |-> action, navigation |-> navigation, data |-> data,
     locators |-> locators, element |-> element, original_url |-> url]

\* a click that carries the entry URL of the recording
RecOpen == Recorded(<<"C","l","i","c","k">>, <<"O","p","e","n">>, <<>>, Css(<<".","b">>), NoElement, <<"h","t","t","p",":","/","/","a","p","p">>)

\* a second click on the same element, recorded with other spacing
RecReopen == Recorded(<<"C","l","i","c","k">>, <<"R","e","o","p","e","n">>, <<>>, Css(<<" ",".","b">>), NoElement, <<>>)

\* two data-entry steps bound to the same data key Amount
RecAmount == Recorded(<<"F","i","l","l">>, <<"E","n","t","e","r"," ","A","m","o","u","n","t">>, <<"A","m","o","u","n","t",":"," ","5">>, Css(<<"#","a","m","t">>), NoElement, <<>>)

RecLineAmount ==
    Recorded(<<"F","i","l","l">>, <<"L","i","n","e">>, <<"A","m","o","u","n","t",":"," ","7">>, NoLocators,
             [NoElement EXCEPT !.xpath = <<"/","/","t","d","/","i","n","p","u","t">>], <<>>)

\* an authentication step
RecVerify == Recorded(<<"C","l","i","c","k">>, <<"V","e","r","i","f","y">>, <<>>, Css(<<".","v">>), NoElement, <<>>)

\* a step recorded without any selector
RecSave == Recorded(<<"C","l","i","c","k">>, <<"S","a","v","e">>, <<>>, NoLocators, NoElement, <<>>)

RecordedSteps == {RecOpen, RecReopen, RecAmount, RecLineAmount, RecVerify, RecSave}

LineOpen == <<"1","."," ","C","l","i","c","k"," ","|"," ","O","p","e","n">>

LineAmount == <<"2","."," ","F","i","l","l"," ","|"," ","E","n","t","e","r"," ","A","m","o","u","n","t"," ","|"," ","D","a","t","a",":"," ","A","m","o","u","n","t",":"," ","5">>

LineTapA == <<"T","a","p"," ","|"," ","Z","z">>

LineTapB == <<"T","a","p"," ","|"," ","Y","y">>

LinePressOpen == <<"P","r","e","s","s"," ","|"," ","o","p","e","n">>

LineDigits == <<"7">>

LineProse == <<"O","p","e","n"," ","t","h","e"," ","p","a","g","e">>

Previews ==
    { <<>>,
      <<LineOpen>>,
      <<LineProse, LineOpen>>,
      <<LineOpen, LineOpen>>,
      <<LineOpen, LineAmount>>,
      <<LineTapA, LineTapB>>,
      <<LinePressOpen, LineTapA>>,
      <<LineDigits>> }

\* what _build_deterministic_payload discovers on disk under the framework
\* root: pages/**/login.page.ts, pages/**/home.page.ts, util/methods.utility.ts
Frameworks ==
    { [login_page_file |-> FALSE, home_page_file |-> FALSE, helper |-> FALSE],
      [login_page_file |-> TRUE,  home_page_file |-> TRUE,  helper |-> TRUE] }

\* the documents of a flow of n steps, in ascending order of step_index
DocsOf(flow) ==
    [i \in 1..Len(flow) |->
        [step_index |-> i, action |-> flow[i].action, navigation |-> flow[i].navigation,
         data |-> flow[i].data, locators |-> flow[i].locators,
         element |-> flow[i].element, original_url |-> flow[i].original_url]]

Flows(n) == UNION {[1..k -> RecordedSteps] : k \in 0..n}

Orders(n) == {p \in [1..n -> 1..n] : \A i, j \in 1..n : p[i] = p[j] => i = j}

\* ---------------------------------------------------------------------
\* Paths: a path is a sequence of segments; root is the framework root
\* ---------------------------------------------------------------------
FrameworkRoot == <<"repo">>

\* (framework.root / rel_path).resolve(): an absolute rel_path replaces the
\* root, "." is dropped and ".." removes the last segment (none at "/")
RECURSIVE ResolveSegments(_, _)
ResolveSegments(acc, rest) ==
    IF Len(rest) = 0 THEN acc
    ELSE IF rest[1] = "/" THEN ResolveSegments(<<>>, Tail(rest))
    ELSE IF rest[1] = "." THEN ResolveSegments(acc, Tail(rest))
    ELSE IF rest[1] = ".."
         THEN ResolveSegments(IF Len(acc) = 0 THEN acc ELSE SubSeq(acc, 1, Len(acc) - 1),
                              Tail(rest))
    ELSE ResolveSegments(Append(acc, rest[1]), Tail(rest))

ResolvePath(rel_path) == ResolveSegments(FrameworkRoot, rel_path)

\* os.path.commonpath([root_resolved, target]) == str(root_resolved)
InsideRoot(target) ==
    Len(target) >= Len(FrameworkRoot)
    /\ SubSeq(target, 1, Len(FrameworkRoot)) = FrameworkRoot

\* lines 1316-1328 with locators_dir, pages_dir and tests_dir unset
locators_path == <<"locators", "flow.ts">>

page_path == <<"pages", "FlowPage.ts">>

test_path == <<"tests", "flow.spec.ts">>

\* paths a caller of persist_payload may hand in
PayloadPaths ==
    { locators_path, page_path, test_path,
      <<"tests", "..", "tests", "flow.spec.ts">>,
      <<"..", "..", "etc", "passwd">>,
      <<"/", "etc", "passwd">> }

\* ---------------------------------------------------------------------
\* Artifact emission (lines 1503-1909).  The three files are modelled by
\* the statements they contain, in order.
\* ---------------------------------------------------------------------
\* the printable ASCII characters in code-point order (the backquote is left out)
AsciiChars == <<" ","!","\"","#","$","%","&","'","(",")","*","+",",","-",".","/","0","1","2","3","4","5","6","7","8","9",":",";","<","=",">","?","@","A","B","C","D","E","F","G","H","I","J","K","L","M","N","O","P","Q","R","S","T","U","V","W","X","Y","Z","[","\\","\\","]","^","_","a","b","c","d","e","f","g","h","i","j","k","l","m","n","o","p","q","r","s","t","u","v","w","x","y","z","{","|","}","~">>

Ord(c) == CHOOSE i \in 1..Len(AsciiChars) : AsciiChars[i] = c

\* a < b for Python str
RECURSIVE StrLess(_, _)
StrLess(a, b) ==
    IF Len(b) = 0 THEN FALSE
    ELSE IF Len(a) = 0 THEN TRUE
    ELSE IF a[1] = b[1] THEN StrLess(Tail(a), Tail(b))
    ELSE Ord(a[1]) < Ord(b[1])

\* sorted(keys)
RECURSIVE SortedStrs(_)
SortedStrs(S) ==
    IF S = {} THEN <<>>
    ELSE LET least == CHOOSE a \in S : \A b \in S \ {a} : StrLess(a, b)
         IN <<least>> \o SortedStrs(S \ {least})

\* the distinct data keys of the bindings in order of first appearance
\* (the key order of fallback_map and key_occurrences)
RECURSIVE DataKeyOrder(_, _)
DataKeyOrder(bindings, n) ==
    IF n > Len(bindings) THEN <<>>
    ELSE (IF \E m \in 1..(n - 1) : bindings[m].data_key = bindings[n].data_key
          THEN <<>> ELSE <<bindings[n].data_key>>)
         \o DataKeyOrder(bindings, n + 1)

BindingsFor(bindings, data_key) ==
    SelectIdx(bindings, {i \in 1..Len(bindings) : bindings[i].data_key = data_key}, 1)

\* variant: a method is emitted for the first binding of each data key only
one_method_per_data_key(bindings, helper_available) ==
    LET first == SelectIdx(bindings,
                           {i \in 1..Len(bindings) :
                               \A m \in 1..(i - 1) : bindings[m].data_key # bindings[i].data_key}, 1)
    IN [i \in 1..Len(first) |->
           [name |-> first[i].method_name,
            locator_key |-> first[i].locator_key,
            call |-> IF first[i].action_category = "select" /\ helper_available
                     THEN "compoundElementSelection"
                     ELSE IF first[i].action_category = "select" THEN "selectOption"
                     ELSE "fill"]]

\* lines 1585-1599: one method per binding
page_methods(bindings, helper_available) ==
    [i \in 1..Len(bindings) |->
        [name |-> bindings[i].method_name,
         locator_key |-> bindings[i].locator_key,
         call |-> IF bindings[i].action_category = "select" /\ helper_available
                  THEN "compoundElementSelection"
                  ELSE IF bindings[i].action_category = "select" THEN "selectOption"
                  ELSE "fill"]]

\* lines 1601-1644: the if-blocks of applyData, one per data key
apply_data_blocks(bindings) ==
    LET keys == DataKeyOrder(bindings, 1)
    IN [k \in 1..Len(keys) |->
          LET group == BindingsFor(bindings, keys[k])
          IN [data_key |-> keys[k],
              methods  |-> [i \in 1..Len(group) |-> group[i].method_name]]]

\* lines 1532-1599: the members the page class declares besides the locator
\* accessors and the data-binding methods
fixed_members(bindings, helper_available) ==
    {<<"p","a","g","e">>}
    \cup (IF helper_available THEN {<<"h","e","l","p","e","r">>} ELSE {})
    \cup (IF Len(bindings) > 0
          THEN {<<"c","o","e","r","c","e","V","a","l","u","e">>, <<"n","o","r","m","a","l","i","s","e","D","a","t","a","K","e","y">>, <<"r","e","s","o","l","v","e","D","a","t","a","V","a","l","u","e">>, <<"a","p","p","l","y","D","a","t","a">>}
          ELSE {})

\* lines 1503-1649: the page class
page_content(table, bindings, helper_available) ==
    [accessors  |-> [i \in 1..Len(table) |-> table[i][1]],
     methods    |-> page_methods(bindings, helper_available),
     apply_data |-> apply_data_blocks(bindings)]

\* What the emitted applyData(formData, keys, index) runs: the methods it
\* awaits, in order (lines 1609-1644 of the generated TypeScript)
RECURSIVE ApplyDataCalls(_, _, _, _)
ApplyDataCalls(blocks, keys, index, n) ==
    IF n > Len(blocks) THEN <<>>
    ELSE LET block == blocks[n]
             should_handle ==
                Len(keys) = 0
                \/ \E i \in 1..Len(keys) :
                      normalise_data_key(keys[i]) = normalise_data_key(block.data_key)
             called ==
                IF ~should_handle THEN <<>>
                ELSE IF Len(block.methods) = 1 THEN <<block.methods[1]>>
                ELSE IF index + 1 <= Len(block.methods) THEN <<block.methods[index + 1]>>
                ELSE <<>>
         IN called \o ApplyDataCalls(blocks, keys, index, n + 1)

\* variant: original_url is read from the first step reference only
original_url_of_first_step(refs) ==
    IF Len(refs) = 0 THEN <<>> ELSE refs[1].raw.original_url

\* lines 1794-1805
emitted_original_url(refs) ==
    LET with_url == {i \in 1..Len(refs) : Len(refs[i].raw.original_url) > 0}
    IN IF with_url = {} THEN <<>> ELSE refs[SetMax(with_url)].raw.original_url

\* variant: the wait takes the symbol of the first step, login or not
first_selector(refs) ==
    IF Len(refs) = 0 THEN <<>> ELSE refs[1].key

first_non_login_selector(refs) ==
    LET free == {i \in 1..Len(refs) : refs[i].handled_by # "login"}
    IN IF free = {} THEN <<>> ELSE refs[SetMin(free)].key

\* lines 1861-1873: the statement of a step without data binding
step_op(ref) ==
    LET action == ref.action
    IN IF Len(ref.key) > 0 /\ \E token \in {<<"f","i","l","l">>, <<"t","y","p","e">>, <<"e","n","t","e","r">>} :
                                   Contains(action, token)
       THEN "fill"
       ELSE IF Len(ref.key) > 0 /\ Contains(action, <<"s","e","l","e","c","t">>) THEN "selectOption"
       ELSE IF Len(ref.key) > 0 /\ Contains(action, <<"p","r","e","s","s">>) THEN "press"
       ELSE IF Contains(action, <<"g","o","t","o">>) \/ Contains(action, <<"n","a","v","i","g","a","t","e">>) THEN "goto"
       ELSE IF Len(ref.key) > 0 THEN "click"
       ELSE "todo"

\* variant: line 1859 leaves the occurrence index at 0
step_statement_first_occurrence(refs, idx, has_data_bindings) ==
    IF has_data_bindings /\ Len(refs[idx].data_key) > 0
    THEN [op |-> "applyData", keys |-> <<refs[idx].data_key>>, index |-> 0]
    ELSE [op |-> step_op(refs[idx]), keys |-> <<>>, index |-> 0]

\* lines 1855-1873: the statement of a functional step
step_statement(refs, idx, has_data_bindings) ==
    IF has_data_bindings /\ Len(refs[idx].data_key) > 0
    THEN [op |-> "applyData", keys |-> <<refs[idx].data_key>>,
          index |-> Cardinality({p \in 1..(idx - 1) :
                                    refs[p].data_key = refs[idx].data_key})]
    ELSE [op |-> step_op(refs[idx]), keys |-> <<>>, index |-> 0]

\* lines 1829-1880: the functional steps for refs[idx..], numbered from counter
RECURSIVE functional_steps(_, _, _, _)
functional_steps(refs, idx, counter, has_data_bindings) ==
    IF idx > Len(refs) THEN <<>>
    ELSE IF refs[idx].handled_by = "login"
         THEN functional_steps(refs, idx + 1, counter, has_data_bindings)
    ELSE LET stmt == step_statement(refs, idx, has_data_bindings)
         IN << [kind |-> "step", number |-> counter, key |-> refs[idx].key,
                op |-> stmt.op, keys |-> stmt.keys, index |-> stmt.index,
                url |-> <<>>, ordinal |-> refs[idx].raw.step] >>
            \o functional_steps(refs, idx + 1, counter + 1, has_data_bindings)

\* lines 1789-1881: test_step_counter is shared by the navigation step and
\* the functional steps
test_content(refs, has_data_bindings) ==
    LET url == emitted_original_url(refs)
        navigation_step ==
            IF Len(url) > 0
            THEN << [kind |-> "navigate", number |-> 0, key |-> first_non_login_selector(refs),
                     op |-> "goto", keys |-> <<>>, index |-> 0, url |-> url, ordinal |-> 0] >>
            ELSE <<>>
    IN navigation_step \o functional_steps(refs, 1, Len(navigation_step), has_data_bindings)

\* lines 1885-1896
test_data_mapping(bindings) ==
    LET keys == SortedStrs({bindings[i].data_key : i \in 1..Len(bindings)})
    IN [k \in 1..Len(keys) |->
          LET group == BindingsFor(bindings, keys[k])
              kinds == {group[i].action_category : i \in 1..Len(group)}
          IN [columnName  |-> keys[k],
              occurrences |-> Len(group),
              actionType  |-> IF Cardinality(kinds) = 1 THEN CHOOSE c \in kinds : TRUE ELSE "mixed",
              methods     |-> [i \in 1..Len(group) |-> group[i].method_name]]]

\* lines 1898-1909: the returned payload
build_payload(table, refs, bindings, fw) ==
    [locators |-> << [path |-> locators_path, content |-> table] >>,
     pages    |-> << [path |-> page_path,
                      content |-> page_content(table, bindings, fw.helper)] >>,
     tests    |-> << [path |-> test_path,
                      content |-> test_content(refs, Len(bindings) > 0),
                      login_import |-> fw.login_page_file,
                      home_import  |-> fw.home_page_file] >>,
     testDataMapping |-> test_data_mapping(bindings)]

NoPayload == [locators |-> <<>>, pages |-> <<>>, tests |-> <<>>, testDataMapping |-> <<>>]

\* payload.values() flattened: the objects persist_payload visits, in order
FileObject(f) == [has_path |-> TRUE, path |-> f.path]

payload_files(p) ==
    [i \in 1..Len(p.locators) |-> FileObject(p.locators[i])]
    \o [i \in 1..Len(p.pages) |-> FileObject(p.pages[i])]
    \o [i \in 1..Len(p.tests) |-> FileObject(p.tests[i])]
    \o [i \in 1..Len(p.testDataMapping) |-> [has_path |-> FALSE, path |-> <<>>]]

\* ---------------------------------------------------------------------
\* State
\* ---------------------------------------------------------------------
VARIABLES
    docs,               \* documents of the flow, as the vector store lists them
    preview,            \* accepted_preview, line by line
    framework,          \* what is discovered under the framework root
    pc,                 \* position of the invocation of generate_script_payload
    error,              \* the exception that ended the invocation, "" if none
    vector_steps,       \* context["vector_steps"]
    build_steps,        \* argument vector_steps of _build_deterministic_payload
    keep_signatures,    \* argument keep_signatures of _build_deterministic_payload
    effective_steps,    \* local of _build_deterministic_payload
    index,              \* number of iterations of the loop of line 1385 done
    selector_to_key,    \* Dict[str, str] as a set of <<selector, key>>
    used_keys,
    entries,            \* List[Tuple[key, selector]]
    entry_keys,
    step_refs,
    data_bindings,
    method_names,
    result,             \* the payload returned to the caller
    files,              \* persist_payload: the objects of payload.values()
    file_index,         \* persist_payload: objects visited so far
    written_paths,      \* persist_payload: local written_paths
    disk,               \* files written under or outside the framework root
    persist_pc,         \* position of the invocation of persist_payload
    runs,               \* invocations of generate_script_payload so far
    first_run,          \* inputs and outcome of the first completed invocation
    metadata,           \* argument of build_refined_flow_from_metadata
    ingest_pc,          \* position of the call of build_refined_flow_from_metadata
    refined_steps,      \* refined_flow["steps"] as returned
    auth_args,          \* arguments of _filter_auth_steps
    auth_pc,            \* position of the call of _filter_auth_steps
    auth_kept           \* the list _filter_auth_steps returned

inputs == <<docs, preview, framework>>

locals == <<vector_steps, build_steps, keep_signatures, effective_steps, index,
            selector_to_key, used_keys, entries, entry_keys, step_refs,
            data_bindings, method_names>>

persist_vars == <<files, file_index, written_paths, disk, persist_pc>>

history == <<runs, first_run>>

ingest_vars == <<metadata, ingest_pc, refined_steps, auth_args, auth_pc, auth_kept>>

vars == <<inputs, pc, error, locals, result, persist_vars, history, ingest_vars>>

\* no recording has been handed over
NoMetadata == [actions |-> <<>>, original_url |-> <<>>]

NoRun == [done |-> FALSE]

\* the state of an agent on which nothing has been called yet
Fresh ==
    /\ pc = "idle"
    /\ error = ""
    /\ vector_steps = <<>>
    /\ build_steps = <<>>
    /\ keep_signatures = NoSignatures
    /\ effective_steps = <<>>
    /\ index = 0
    /\ selector_to_key = {}
    /\ used_keys = {}
    /\ entries = <<>>
    /\ entry_keys = {}
    /\ step_refs = <<>>
    /\ data_bindings = <<>>
    /\ method_names = {}
    /\ result = NoPayload
    /\ file_index = 0
    /\ written_paths = <<>>
    /\ disk = {}
    /\ runs = 0
    /\ first_run = NoRun
    /\ metadata = NoMetadata
    /\ ingest_pc = "idle"
    /\ refined_steps = <<>>
    /\ auth_args = NoMetadata
    /\ auth_pc = "idle"
    /\ auth_kept = <<>>

\* generate_script_payload is about to be called for a recorded flow whose
\* documents are listed in ascending step order
Init ==
    /\ Fresh
    /\ \E flow \in Flows(MaxSteps) : docs = DocsOf(flow)
    /\ preview \in Previews
    /\ framework \in Frameworks
    /\ files = <<>>
    /\ persist_pc = "idle"

\* ---------------------------------------------------------------------
\* generate_script_payload, lines 1261-1301
\* ---------------------------------------------------------------------
\* variant: the error is caught and what was built so far is returned with it
FailWithPartialPayload(reason) ==
    /\ pc' = "failed"
    /\ error' = reason
    /\ result' = build_payload(entries, step_refs, data_bindings, framework)

Fail(reason) ==
    /\ pc' = "failed"
    /\ error' = reason
    /\ result' = NoPayload

\* lines 1279-1301: the arguments of the call of _build_deterministic_payload
Reconcile(steps, keep, phrases) ==
    LET final   == IF ~keep.none /\ Cardinality(keep.sigs) < 2 THEN NoSignatures ELSE keep
        matched == FilterBySignature(steps, final.sigs)
        half    == IF 2 >= Cardinality(phrases) \div 2 THEN 2 ELSE Cardinality(phrases) \div 2
        fuzzy   == FilterByPhrase(steps, phrases)
    IN IF /\ ~final.none /\ final.sigs # {}
          /\ (Len(matched) = 0 \/ (phrases # {} /\ Len(matched) < half))
          /\ Len(fuzzy) > 0
       THEN [steps |-> fuzzy, keep |-> NoSignatures]
       ELSE [steps |-> steps, keep |-> final]

\* variant: the guard of line 1269 is missing
NoStepsNeverChecked(steps) == FALSE

\* line 1269: `if not vector_steps`
NoStepsAvailable(steps) == Len(steps) = 0

GenerateScriptPayload ==
    /\ pc = "idle"
    /\ LET steps   == steps_from_vector_docs(docs)
           keep    == extract_preview_signatures(preview)
           phrases == extract_preview_phrases(preview)
       IN /\ vector_steps' = steps
          /\ IF NoStepsAvailable(steps)
             THEN /\ Fail("ValueError: no refined recorder steps")
                  /\ UNCHANGED <<build_steps, keep_signatures>>
             ELSE IF phrases.error
             THEN /\ Fail("IndexError: list index out of range")
                  /\ UNCHANGED <<build_steps, keep_signatures>>
             ELSE LET call == Reconcile(steps, keep, phrases.phrases)
                  IN /\ build_steps' = call.steps
                     /\ keep_signatures' = call.keep
                     /\ pc' = "building"
                     /\ UNCHANGED <<error, result>>
    /\ runs' = runs + 1
    /\ UNCHANGED <<ingest_vars, inputs, effective_steps, index, selector_to_key, used_keys,
                   entries, entry_keys, step_refs, data_bindings, method_names,
                   persist_vars, first_run>>

\* ---------------------------------------------------------------------
\* _build_deterministic_payload, lines 1303-1383: fresh tables, and the
\* steps the loop will visit
\* ---------------------------------------------------------------------
\* variant: used_keys is kept on the agent instead of being a local
StaleUsedKeys == used_keys

\* lines 1365-1371
NewUsedKeys == {}

NewMethodNames == {}

\* lines 1373-1383
EffectiveSteps(steps, keep) ==
    LET kept     == IF ~keep.none /\ Cardinality(keep.sigs) < 2 THEN NoSignatures ELSE keep
        filtered == FilterBySignature(steps, kept.sigs)
    IN IF ~kept.none /\ kept.sigs # {} /\ Len(filtered) > 0 THEN filtered ELSE steps

BuildDeterministicPayload ==
    /\ pc = "building"
    /\ selector_to_key' = {}
    /\ used_keys' = NewUsedKeys
    /\ entries' = <<>>
    /\ entry_keys' = {}
    /\ step_refs' = <<>>
    /\ data_bindings' = <<>>
    /\ method_names' = NewMethodNames
    /\ keep_signatures' =
          IF ~keep_signatures.none /\ Cardinality(keep_signatures.sigs) < 2
          THEN NoSignatures ELSE keep_signatures
    /\ effective_steps' = EffectiveSteps(build_steps, keep_signatures)
    /\ index' = 0
    /\ pc' = "resolving"
    /\ UNCHANGED <<ingest_vars, inputs, error, vector_steps, build_steps, result, persist_vars, history>>

\* ---------------------------------------------------------------------
\* One iteration of the loop of lines 1385-1501
\* ---------------------------------------------------------------------
\* variant: the check of line 1388 is missing, no step is skipped
never_skipped(step, keep) == FALSE

\* line 1388: the step is skipped
Skipped(step, keep) == ~keep.none /\ step_signature(step) \notin keep.sigs

\* variant: lines 1415-1416 are missing, every step derives a new symbol
SymbolForNoReuse(selector, step, idx) == UniqueName(base_key(step, idx), used_keys)

\* lines 1415-1433
SymbolFor(selector, step, idx) ==
    IF \E e \in selector_to_key : e[1] = selector
    THEN (CHOOSE e \in selector_to_key : e[1] = selector)[2]
    ELSE UniqueName(base_key(step, idx), used_keys)

\* lines 1408-1413: what the error raised for a step without selector names
no_selector_message(idx, step) ==
    [ordinal |-> idx + 1, action |-> step.action, navigation |-> step.navigation]

ResolveStep ==
    /\ pc = "resolving"
    /\ index < Len(effective_steps)
    /\ LET step     == effective_steps[index + 1]
           selector == resolve_selector(step)
           key      == SymbolFor(selector, step, index)
           login    == handled_by_login(framework.login_page_file, step, key)
           data_key == extract_data_key(step)
           bound    == Len(data_key) > 0 /\ ~login
           method   == UniqueName(method_candidate(step, key), method_names)
       IN IF Skipped(step, keep_signatures)
          THEN /\ index' = index + 1
               /\ UNCHANGED <<pc, error, result, selector_to_key, used_keys, entries,
                              entry_keys, step_refs, data_bindings, method_names>>
          ELSE IF Len(selector) = 0
          THEN /\ Fail("ValueError: no selector resolved")
               /\ UNCHANGED <<index, selector_to_key, used_keys, entries, entry_keys,
                              step_refs, data_bindings, method_names>>
          ELSE /\ index' = index + 1
               /\ selector_to_key' = selector_to_key \cup {<<selector, key>>}
               /\ used_keys' = used_keys \cup {key}
               /\ IF ~login /\ key \notin entry_keys
                  THEN /\ entries' = Append(entries, <<key, selector>>)
                       /\ entry_keys' = entry_keys \cup {key}
                  ELSE UNCHANGED <<entries, entry_keys>>
               /\ step_refs' = Append(step_refs,
                     [key |-> key,
                      action |-> Lower(step.action),
                      data |-> extract_data_value(step),
                      raw |-> step,
                      handled_by |-> IF login THEN "login" ELSE "",
                      data_key |-> IF bound THEN data_key ELSE <<>>,
                      method_name |-> IF bound THEN method ELSE <<>>])
               /\ IF bound
                  THEN /\ method_names' = method_names \cup {method}
                       /\ data_bindings' = Append(data_bindings,
                             [locator_key |-> key,
                              data_key |-> data_key,
                              normalised |-> normalise_data_key(data_key),
                              method_name |-> method,
                              fallback |-> extract_data_value(step),
                              action_category |-> action_category(step)])
                  ELSE UNCHANGED <<method_names, data_bindings>>
               /\ UNCHANGED <<pc, error, result>>
    /\ UNCHANGED <<ingest_vars, inputs, vector_steps, build_steps, keep_signatures, effective_steps,
                   persist_vars, runs, first_run>>

\* ---------------------------------------------------------------------
\* Emission and return, lines 1503-1909
\* ---------------------------------------------------------------------
Emit ==
    /\ pc = "resolving"
    /\ index = Len(effective_steps)
    /\ result' = build_payload(entries, step_refs, data_bindings, framework)
    /\ pc' = "done"
    /\ UNCHANGED <<ingest_vars, inputs, error, locals, persist_vars, history>>

\* ---------------------------------------------------------------------
\* persist_payload, lines 1911-1924
\* ---------------------------------------------------------------------
\* the caller persists the payload it was returned
PersistResult ==
    /\ pc = "done"
    /\ persist_pc = "idle"
    /\ files' = payload_files(result)
    /\ file_index' = 0
    /\ written_paths' = <<>>
    /\ persist_pc' = "running"
    /\ UNCHANGED <<ingest_vars, inputs, pc, error, locals, result, disk, history>>

\* one iteration of the loops of lines 1915-1923, or the return of line 1924
PersistFile ==
    /\ persist_pc = "running"
    /\ IF file_index = Len(files)
       THEN /\ persist_pc' = "returned"
            /\ UNCHANGED <<file_index, written_paths, disk>>
       ELSE LET file_obj == files[file_index + 1]
                target   == ResolvePath(file_obj.path)
            IN IF ~file_obj.has_path
               THEN /\ persist_pc' = "KeyError"
                    /\ UNCHANGED <<file_index, written_paths, disk>>
               ELSE IF ~InsideRoot(target)
               THEN /\ persist_pc' = "ValueError"
                    /\ UNCHANGED <<file_index, written_paths, disk>>
               ELSE /\ disk' = disk \cup {target}
                    /\ written_paths' = Append(written_paths, target)
                    /\ file_index' = file_index + 1
                    /\ UNCHANGED persist_pc
    /\ UNCHANGED <<ingest_vars, inputs, pc, error, locals, result, files, history>>

Next ==
    \/ GenerateScriptPayload
    \/ BuildDeterministicPayload
    \/ ResolveStep
    \/ Emit
    \/ PersistResult
    \/ PersistFile

Spec == Init /\ [][Next]_vars

\* ---------------------------------------------------------------------
\* persist_payload called on a payload of the caller's making
\* ---------------------------------------------------------------------
CallerPayloads ==
    UNION {[1..k -> {[has_path |-> TRUE, path |-> p] : p \in PayloadPaths}] : k \in 0..MaxFiles}

InitPersist ==
    /\ Fresh
    /\ docs = <<>>
    /\ preview = <<>>
    /\ framework = [login_page_file |-> FALSE, home_page_file |-> FALSE, helper |-> FALSE]
    /\ files \in CallerPayloads
    /\ persist_pc = "running"

NextPersist == PersistFile

SpecPersist == InitPersist /\ [][NextPersist]_vars

\* ---------------------------------------------------------------------
\* The documents of a flow listed by the vector store in any order
\* ---------------------------------------------------------------------
ListedSteps == {RecOpen, RecReopen, RecAmount, RecVerify}

ListedPreviews == { <<>>, <<LineOpen, LineAmount>>, <<LinePressOpen, LineTapA>> }

InitDocs ==
    /\ Fresh
    /\ \E k \in 0..MaxDocs :
          \E flow \in [1..k -> ListedSteps], order \in Orders(k) :
             docs = [i \in 1..k |-> DocsOf(flow)[order[i]]]
    /\ preview \in ListedPreviews
    /\ framework = [login_page_file |-> TRUE, home_page_file |-> TRUE, helper |-> TRUE]
    /\ files = <<>>
    /\ persist_pc = "idle"

NextDocs ==
    \/ GenerateScriptPayload
    \/ BuildDeterministicPayload
    \/ ResolveStep
    \/ Emit

SpecDocs == InitDocs /\ [][NextDocs]_vars

\* ---------------------------------------------------------------------
\* Several invocations on the same agent instance
\* ---------------------------------------------------------------------
ReuseFlows ==
    { <<RecAmount, RecLineAmount>>, <<RecReopen, RecOpen, RecAmount>>, <<RecOpen, RecSave>> }

ReusePreviews == { <<>>, <<LineOpen, LineAmount>> }

ReuseFramework == [login_page_file |-> FALSE, home_page_file |-> FALSE, helper |-> FALSE]

InitReuse ==
    /\ Fresh
    /\ \E flow \in ReuseFlows : docs = DocsOf(flow)
    /\ preview \in ReusePreviews
    /\ framework = ReuseFramework
    /\ files = <<>>
    /\ persist_pc = "idle"

\* the caller takes the outcome of the finished invocation and calls
\* generate_script_payload again on the same agent; the first outcome it
\* chooses to keep is remembered in first_run
NewInvocation ==
    /\ pc \in {"done", "failed"}
    /\ runs < MaxRuns
    /\ \E flow \in ReuseFlows : docs' = DocsOf(flow)
    /\ preview' \in ReusePreviews
    /\ framework' = ReuseFramework
    /\ first_run' \in
          IF first_run.done THEN {first_run}
          ELSE {first_run,
                [done |-> TRUE, run |-> runs, docs |-> docs, preview |-> preview, framework |-> framework,
                 pc |-> pc, error |-> error, result |-> result]}
    /\ pc' = "idle"
    /\ error' = ""
    /\ result' = NoPayload
    /\ UNCHANGED <<ingest_vars, locals, persist_vars, runs>>

NextReuse ==
    \/ GenerateScriptPayload
    \/ BuildDeterministicPayload
    \/ ResolveStep
    \/ Emit
    \/ NewInvocation

SpecReuse == InitReuse /\ [][NextReuse]_vars

\* ---------------------------------------------------------------------
\* Flows with authentication steps and entry URLs, with and without a
\* login page under the framework root
\* ---------------------------------------------------------------------
\* a data-entry step of the sign-in form
RecPassword == Recorded(<<"F","i","l","l">>, <<"E","n","t","e","r"," ","P","a","s","s","w","o","r","d">>, <<"P","a","s","s","w","o","r","d",":"," ","x">>, Css(<<"#","p","w">>), NoElement, <<>>)

\* a click recorded under another entry URL
RecPortal == Recorded(<<"C","l","i","c","k">>, <<"P","o","r","t","a","l">>, <<>>, Css(<<".","p">>), NoElement, <<"h","t","t","p",":","/","/","b">>)

\* an authentication step on the element that RecOpen clicks
RecVerifyOpen == Recorded(<<"C","l","i","c","k">>, <<"V","e","r","i","f","y">>, <<>>, Css(<<".","b">>), NoElement, <<>>)

LoginSteps == {RecOpen, RecVerifyOpen, RecPassword, RecAmount, RecPortal}

LoginPreviews == { <<>>, <<LineOpen, LineAmount>> }

InitLogin ==
    /\ Fresh
    /\ \E flow \in UNION {[1..k -> LoginSteps] : k \in 0..MaxSteps} : docs = DocsOf(flow)
    /\ preview \in LoginPreviews
    /\ framework \in Frameworks
    /\ files = <<>>
    /\ persist_pc = "idle"

SpecLogin == InitLogin /\ [][Next]_vars

\* ---------------------------------------------------------------------
\* Previews that do not line up with the recorded steps
\* ---------------------------------------------------------------------
\* a step recorded without navigation text
RecTap == Recorded(<<"T","a","p">>, <<>>, <<>>, Css(<<".","t">>), NoElement, <<>>)

LinePressOpenPage == <<"P","r","e","s","s"," ","|"," ","o","p","e","n"," ","t","h","e"," ","p","a","g","e">>

LineClickOpen == <<"c","l","i","c","k"," ","|"," ","o","p","e","n">>

LineOpenClick == <<"o","p","e","n"," ","|"," ","c","l","i","c","k">>

ReconcileSteps == {RecOpen, RecReopen, RecTap, RecAmount}

ReconcilePreviews ==
    { <<LinePressOpen, LineTapA>>,
      <<LineTapA, LineTapB>>,
      <<LinePressOpenPage, LineTapA>>,
      <<LineClickOpen, LineOpenClick>>,
      <<LineOpen, LineAmount>> }

InitReconcile ==
    /\ Fresh
    /\ \E flow \in UNION {[1..k -> ReconcileSteps] : k \in 0..MaxSteps} : docs = DocsOf(flow)
    /\ preview \in ReconcilePreviews
    /\ framework = [login_page_file |-> FALSE, home_page_file |-> FALSE, helper |-> FALSE]
    /\ files = <<>>
    /\ persist_pc = "idle"

SpecReconcile == InitReconcile /\ [][Next]_vars

\* ---------------------------------------------------------------------
\* Flows whose steps were recorded with structural selectors, blank
\* candidates and candidates of lower priority
\* ---------------------------------------------------------------------
RecCell == Recorded(<<"C","l","i","c","k">>, <<"C","e","l","l">>, <<>>, Css(<<"d","i","v"," ",">"," ","s","p","a","n",":","n","t","h","-","c","h","i","l","d","(","2",")">>), NoElement, <<>>)

RecRow == Recorded(<<"C","l","i","c","k">>, <<"R","o","w">>, <<>>, Css(<<"#","a"," ",">"," ","b">>), NoElement, <<>>)

RecItem == Recorded(<<"C","l","i","c","k">>, <<"I","t","e","m">>, <<>>, Css(<<"u","l"," "," ","l","i",":","n","t","h","-","c","h","i","l","d","(","2",")">>), NoElement, <<>>)

RecInvoice == Recorded(<<"C","l","i","c","k">>, <<"I","n","v","o","i","c","e">>, <<>>, Css(<<"#","i","n","v","o","i","c","e","I","d">>), NoElement, <<>>)

\* the css candidate is blank, the playwright candidate is not
RecBlank ==
    Recorded(<<"C","l","i","c","k">>, <<"B","l","a","n","k">>, <<>>, [NoLocators EXCEPT !.css = <<" "," ">>, !.playwright = <<"#","x">>],
             NoElement, <<>>)

RecBlankNested ==
    Recorded(<<"C","l","i","c","k">>, <<"N","e","s","t","e","d">>, <<>>, [NoLocators EXCEPT !.css = <<" "," ">>, !.playwright = <<"#","x">>],
             [NoElement EXCEPT !.css = <<".","e","l">>], <<>>)

\* candidates of lower priority in both sets
RecStable ==
    Recorded(<<"C","l","i","c","k">>, <<"S","t","a","b","l","e">>, <<>>, [NoLocators EXCEPT !.stable = <<".","s">>, !.selector = <<".","g">>],
             [NoElement EXCEPT !.css = <<".","e">>], <<>>)

\* a child combinator written without spaces
RecTight == Recorded(<<"C","l","i","c","k">>, <<"T","i","g","h","t">>, <<>>, Css(<<"#","a",">","b">>), NoElement, <<>>)

SelectorSteps ==
    {RecCell, RecRow, RecItem, RecInvoice, RecBlank, RecBlankNested, RecStable, RecLineAmount, RecTight}

InitSelectors ==
    /\ Fresh
    /\ \E flow \in UNION {[1..k -> SelectorSteps] : k \in 0..MaxSteps} : docs = DocsOf(flow)
    /\ preview = <<>>
    /\ framework = [login_page_file |-> FALSE, home_page_file |-> FALSE, helper |-> FALSE]
    /\ files = <<>>
    /\ persist_pc = "idle"

SpecSelectors == InitSelectors /\ [][Next]_vars

\* ---------------------------------------------------------------------
\* Flows whose steps derive the same base identifier
\* ---------------------------------------------------------------------
\* another element with the navigation text of RecOpen
RecOpenC == Recorded(<<"C","l","i","c","k">>, <<"O","p","e","n">>, <<>>, Css(<<".","c">>), NoElement, <<>>)

\* an element whose navigation text ends in a number
RecOpen2 == Recorded(<<"C","l","i","c","k">>, <<"O","p","e","n","2">>, <<>>, Css(<<".","d">>), NoElement, <<>>)

\* a step recorded without action or navigation text
RecBare == Recorded(<<>>, <<>>, <<>>, Css(<<".","z">>), NoElement, <<>>)

SymbolSteps == {RecOpen, RecReopen, RecOpenC, RecOpen2, RecBare}

InitSymbols ==
    /\ Fresh
    /\ \E flow \in UNION {[1..k -> SymbolSteps] : k \in 0..MaxSteps} : docs = DocsOf(flow)
    /\ preview = <<>>
    /\ framework = [login_page_file |-> FALSE, home_page_file |-> FALSE, helper |-> FALSE]
    /\ files = <<>>
    /\ persist_pc = "idle"

SpecSymbols == InitSymbols /\ [][Next]_vars

\* ---------------------------------------------------------------------
\* recorder_auto_ingest.py: from recorder metadata to a refined flow
\* ---------------------------------------------------------------------
MaxActions == 3

\* A recorded action: its type, the page it was recorded on, the recorder's
\* clock (Date.now(), of one width within a recording) and what
\* element.selector and element.value hold.
Action(type, pageUrl, timestamp, css, xpath, value) ==
    [type |-> type, pageUrl |-> pageUrl, timestamp |-> timestamp,
     css |-> css, xpath |-> xpath, value |-> value]

ActInit   == Action(<<"c","l","i","c","k">>, <<"h","t","t","p","s",":","/","/","a","p","p",".","i","o","/","i","n","i","t">>, 10, <<"#","s","t","a","r","t">>, <<>>, <<>>)

ActLogin  == Action(<<"c","h","a","n","g","e">>, <<"h","t","t","p","s",":","/","/","s","s","o",".","i","d",".","c","o","m","/","l","o","g","i","n">>, 11, <<"#","u","s","e","r">>, <<>>, <<"u">>)

ActCreate == Action(<<"c","l","i","c","k">>, <<"h","t","t","p","s",":","/","/","a","p","p",".","i","o","/","n","e","w">>, 12, <<"#","c","r","e","a","t","e">>, <<"/","/","a">>, <<>>)

ActRetry  == Action(<<"C","l","i","c","k">>, <<"h","t","t","p","s",":","/","/","a","p","p",".","i","o","/","n","e","w">>, 11, <<"#","c","r","e","a","t","e">>, <<>>, <<>>)

ActName   == Action(<<"i","n","p","u","t">>, <<"h","t","t","p","s",":","/","/","a","p","p",".","i","o","/","n","e","w">>, 12, <<"#","n","a","m","e">>, <<"/","/","a">>, <<"n">>)

ActScroll == Action(<<"s","c","r","o","l","l">>, <<>>, 10, <<"#","l","i","s","t">>, <<>>, <<>>)

RecordedActions == {ActInit, ActLogin, ActCreate, ActRetry, ActName, ActScroll}

Traces == UNION {[1..k -> RecordedActions] : k \in 0..MaxActions}

OriginalUrls == {<<>>, <<"h","t","t","p","s",":","/","/","a","p","p",".","i","o","/","h","o","m","e">>}

\* lines 326-329: the sort key, the timestamp as a string
get_timestamp(action) == NatStr(action.timestamp)

\* variant: the actions are left in the order of the recording
in_recorded_order(actions) == actions

\* lines 331-334: sorted(actions, key=_get_timestamp), a stable sort
RECURSIVE SortedByTimestamp(_)
SortedByTimestamp(actions) ==
    IF Len(actions) = 0 THEN <<>>
    ELSE LET n     == Len(actions)
             least == CHOOSE i \in 1..n :
                         /\ \A j \in 1..n : ~StrLess(get_timestamp(actions[j]), get_timestamp(actions[i]))
                         /\ \A j \in 1..(i - 1) : StrLess(get_timestamp(actions[i]), get_timestamp(actions[j]))
         IN <<actions[least]>> \o SortedByTimestamp(SelectIdx(actions, (1..n) \ {least}, 1))

\* urlparse(url).netloc.lower(): what stands between "//" and the next "/",
\* "?" or "#"
netloc(url) ==
    LET start == IndexOf(url, <<"/", "/">>)
    IN IF start = 0 THEN <<>>
       ELSE LET rest == SubSeq(url, start + 2, Len(url))
                ends == {i \in 1..Len(rest) : rest[i] \in {"/", "?", "#"}}
            IN Lower(IF ends = {} THEN rest ELSE SubSeq(rest, 1, SetMin(ends) - 1))

\* lines 239-248
auth_patterns ==
    {<<"l","o","g","i","n",".","m","i","c","r","o","s","o","f","t","o","n","l","i","n","e">>, <<"m","i","c","r","o","s","o","f","t","o","n","l","i","n","e",".","c","o","m">>, <<"l","o","g","i","n",".","m","i","c","r","o","s","o","f","t">>, <<"o","k","t","a",".","c","o","m">>,
     <<"a","u","t","h","0",".","c","o","m">>, <<"o","a","u","t","h">>, <<"s","s","o",".">>, <<"s","a","m","l">>}

\* lines 254-258: the action was recorded on an authentication provider
on_auth_domain(action) ==
    \E pattern \in auth_patterns : Contains(netloc(action.pageUrl), pattern)

\* lines 260-262: the action was recorded on the target domain
on_target_domain(action, original_url) ==
    \/ Contains(netloc(action.pageUrl), netloc(original_url))
    \/ Contains(netloc(original_url), netloc(action.pageUrl))

\* lines 217-267
filter_auth_steps(actions, original_url) ==
    IF Len(original_url) = 0 \/ Len(netloc(original_url)) = 0 THEN actions
    ELSE LET keep     == {i \in 1..Len(actions) :
                             ~on_auth_domain(actions[i]) /\ on_target_domain(actions[i], original_url)}
             filtered == SelectIdx(actions, keep, 1)
         IN IF Len(filtered) > 0 THEN filtered ELSE actions

\* lines 292-297: the action at j is taken for the element of the one at i
same_element(actions, i, j) ==
    \/ Len(actions[i].css) > 0 /\ actions[i].css = actions[j].css
    \/ Len(actions[i].xpath) > 0 /\ actions[i].xpath = actions[j].xpath

\* lines 270-308: of each run of actions on the element of its first action,
\* the last one is kept
RECURSIVE deduplicate_actions(_)
deduplicate_actions(actions) ==
    IF Len(actions) = 0 THEN <<>>
    ELSE LET n    == Len(actions)
             stop == {j \in 2..n : ~same_element(actions, 1, j)}
             j    == IF stop = {} THEN n + 1 ELSE SetMin(stop)
         IN <<actions[j - 1]>> \o deduplicate_actions(SubSeq(actions, j, n))

\* lines 118-141: the step an action type maps to, <<>> if none; the recorded
\* actions of the model carry no key, so a press maps to none
mapped_action(action) ==
    LET action_type == Lower(action.type)
    IN IF action_type \in {<<"c","h","a","n","g","e">>, <<"i","n","p","u","t">>} THEN <<"f","i","l","l">>
       ELSE IF action_type = <<"c","l","i","c","k">> THEN <<"c","l","i","c","k">>
       ELSE <<>>

\* lines 143-170: the selector of the step, css before xpath
step_selector(action) == IF Len(action.css) > 0 THEN action.css ELSE action.xpath

\* lines 118-214: `entry` of line 348 is truthy
convertible(action) == Len(mapped_action(action)) > 0 /\ Len(step_selector(action)) > 0

\* str.capitalize()
capitalize(s) ==
    [i \in 1..Len(s) |-> IF i = 1 THEN UpperChar(s[i]) ELSE LowerChar(s[i])]

\* lines 381-407: the refined step of the idx-th converted action. navigation
\* and expected come from _describe_step and are left out; source is the
\* action the step was made from, kept for the record. The recorded elements
\* carry no label, name, title or tag, so data_label is "Field".
refined_step(action, idx) ==
    [step     |-> idx,
     action   |-> capitalize(mapped_action(action)),
     data     |-> IF mapped_action(action) = <<"f","i","l","l">> /\ Len(action.value) > 0
                  THEN <<"F","i","e","l","d",":"," ">> \o action.value ELSE <<>>,
     locators |-> [css |-> action.css, xpath |-> action.xpath],
     source   |-> action]

\* lines 346-350: the actions that become steps
converted_actions(actions) ==
    LET deduplicated == deduplicate_actions(SortedByTimestamp(actions))
    IN SelectIdx(deduplicated, {i \in 1..Len(deduplicated) : convertible(deduplicated[i])}, 1)

\* lines 311-430
BuildRefinedFlowFromMetadata ==
    /\ ingest_pc = "idle"
    /\ \E actions \in Traces :
          /\ metadata' = [actions |-> actions, original_url |-> <<>>]
          /\ LET converted == converted_actions(actions)
             IN IF Len(actions) = 0 \/ Len(converted) = 0
                THEN /\ ingest_pc' = "ValueError"
                     /\ refined_steps' = <<>>
                ELSE /\ ingest_pc' = "returned"
                     /\ refined_steps' = [idx \in 1..Len(converted) |-> refined_step(converted[idx], idx)]
    /\ UNCHANGED <<inputs, pc, error, locals, result, persist_vars, history,
                   auth_args, auth_pc, auth_kept>>

\* _filter_auth_steps called on a trace, lines 217-267
FilterAuthSteps ==
    /\ auth_pc = "idle"
    /\ \E actions \in Traces, original_url \in OriginalUrls :
          /\ auth_args' = [actions |-> actions, original_url |-> original_url]
          /\ auth_kept' = filter_auth_steps(actions, original_url)
    /\ auth_pc' = "returned"
    /\ UNCHANGED <<inputs, pc, error, locals, result, persist_vars, history,
                   metadata, ingest_pc, refined_steps>>

InitIngest ==
    /\ Fresh
    /\ docs = <<>>
    /\ preview = <<>>
    /\ framework = [login_page_file |-> FALSE, home_page_file |-> FALSE, helper |-> FALSE]
    /\ files = <<>>
    /\ persist_pc = "idle"

NextIngest == BuildRefinedFlowFromMetadata

SpecIngest == InitIngest /\ [][NextIngest]_vars

NextAuthFilter == FilterAuthSteps

SpecAuthFilter == InitIngest /\ [][NextAuthFilter]_vars

\* ---------------------------------------------------------------------
\* Flows in which reconciliation drops steps around a step without selector
\* ---------------------------------------------------------------------
LineClickSave == <<"C","l","i","c","k"," ","|"," ","S","a","v","e">>

LineTapSave == <<"T","a","p"," ","|"," ","s","a","v","e">>

DroppingSteps == {RecOpen, RecAmount, RecSave}

DroppingPreviews ==
    { <<>>,
      <<LineOpen, LineAmount>>,
      <<LineClickSave, LineAmount>>,
      <<LineTapSave, LineTapA>>,
      <<LinePressOpen, LineTapA>> }

InitDropping ==
    /\ Fresh
    /\ \E flow \in UNION {[1..k -> DroppingSteps] : k \in 0..MaxSteps} : docs = DocsOf(flow)
    /\ preview \in DroppingPreviews
    /\ framework = [login_page_file |-> FALSE, home_page_file |-> FALSE, helper |-> FALSE]
    /\ files = <<>>
    /\ persist_pc = "idle"

SpecDropping == InitDropping /\ [][Next]_vars

\* ---------------------------------------------------------------------
\* Flows of data-entry steps whose data keys and symbols come close
\* ---------------------------------------------------------------------
\* a data key that ends in a number
RecAmount2 == Recorded(<<"F","i","l","l">>, <<"S","e","c","o","n","d">>, <<"A","m","o","u","n","t","2",":"," ","9">>, Css(<<".","q">>), NoElement, <<>>)

\* the data key of RecAmount in lower case
RecLowerAmount == Recorded(<<"F","i","l","l">>, <<"L","o","w","e","r">>, <<"a","m","o","u","n","t",":"," ","3">>, Css(<<".","r">>), NoElement, <<>>)

\* a click whose navigation text reads like a method of the page class
RecSetAmount == Recorded(<<"C","l","i","c","k">>, <<"S","e","t"," ","A","m","o","u","n","t">>, <<>>, Css(<<".","s">>), NoElement, <<>>)

BindingSteps ==
    {RecAmount, RecLineAmount, RecAmount2, RecLowerAmount, RecSetAmount, RecPassword}

InitBindings ==
    /\ Fresh
    /\ \E flow \in UNION {[1..k -> BindingSteps] : k \in 0..MaxSteps} : docs = DocsOf(flow)
    /\ preview = <<>>
    /\ framework \in Frameworks
    /\ files = <<>>
    /\ persist_pc = "idle"

SpecBindings == InitBindings /\ [][Next]_vars

\* ---------------------------------------------------------------------
\* _format_steps_for_prompt, lines 942-986, and flows compiled with the
\* preview it produces
\* ---------------------------------------------------------------------
\* lines 945-968: the line of one step; the steps carry no expected text and
\* their elements no name or title
preview_line(item) ==
    LET spoken == SelectIdx(<<item.action, item.navigation>>,
                            {i \in 1..2 : Len(<<item.action, item.navigation>>[i]) > 0}, 1)
        parts  == spoken \o (IF Len(item.data) > 0 THEN <<<<"D","a","t","a",":"," ">> \o item.data>> ELSE <<>>)
        hint   == FirstNonEmpty(<<item.locators.name, item.locators.title>>)
        note   == IF Len(hint) > 0 THEN <<"N","o","t","e",":"," ">> \o hint
                  ELSE <<"N","o","t","e",":"," ","R","e","c","o","r","d","e","d"," ","s","t","e","p"," ","(","n","o"," ","a","c","t","i","o","n","/","n","a","v","i","g","a","t","i","o","n",")">>
    IN NatStr(item.step) \o <<"."," ">> \o Join(IF Len(parts) = 0 THEN <<note>> ELSE parts, <<" ","|"," ">>)

\* lines 942-986 with PREVIEW_MAX_STEPS unset, line by line
format_steps_for_prompt(steps) ==
    [i \in 1..Len(steps) |-> preview_line(steps[i])]

RoundTripSteps == {RecOpen, RecAmount, RecTap, RecBare}

\* the accepted preview is the unedited text shown for the flow
InitRoundTrip ==
    /\ Fresh
    /\ \E flow \in UNION {[1..k -> RoundTripSteps] : k \in 0..MaxSteps} :
          /\ docs = DocsOf(flow)
          /\ preview = format_steps_for_prompt(steps_from_vector_docs(DocsOf(flow)))
    /\ framework = [login_page_file |-> FALSE, home_page_file |-> FALSE, helper |-> FALSE]
    /\ files = <<>>
    /\ persist_pc = "idle"

SpecRoundTrip == InitRoundTrip /\ [][Next]_vars

\* ---------------------------------------------------------------------
\* Properties
\* ---------------------------------------------------------------------
Terminal == pc \in {"done", "failed"}

\* the functional steps of the test script of a payload, in order
FunctionalSteps(payload) ==
    LET content == payload.tests[1].content
    IN SelectIdx(content, {i \in 1..Len(content) : content[i].kind = "step"}, 1)

\* the signatures of the preview lines that parse as pipe-delimited lines
ParsedSignatures ==
    {PreviewLineSignature(preview[i])[1] :
        i \in {j \in 1..Len(preview) : Len(PreviewLineSignature(preview[j])) > 0}}

\* neither the signature filter nor the phrase filter retains a step
NothingMatches ==
    LET phrases == extract_preview_phrases(preview)
    IN /\ ~phrases.error
       /\ Cardinality(ParsedSignatures) >= 2
       /\ \A i \in 1..Len(vector_steps) :
             /\ step_signature(vector_steps[i]) \notin ParsedSignatures
             /\ ~matches_phrase(vector_steps[i], phrases.phrases)

\* C1: when the preview yields 2 or more signatures and neither the signature
\* filter nor the fuzzy phrase filter retains a step, a finished compilation
\* has compiled every input step: each has a step reference with a symbol,
\* and each one not diverted to login has a functional test step.
C1_FallbackCompilesEveryStep ==
    (pc = "done" /\ Len(vector_steps) > 0 /\ NothingMatches)
    => /\ Len(step_refs) = Len(vector_steps)
       /\ \A i \in 1..Len(step_refs) : step_refs[i].raw = vector_steps[i]
       /\ Len(FunctionalSteps(result)) =
             Cardinality({i \in 1..Len(step_refs) : step_refs[i].handled_by # "login"})

\* C2: when persist_payload raises for a path outside the framework root, no
\* file of the payload has been written, wherever the offending file stands.
C2_NoWriteBeforePathError ==
    persist_pc = "ValueError" => (disk = {} /\ written_paths = <<>>)

\* a step is retained by reconciliation when the loop of line 1385 visits it
\* and its signature passes the filter that is in force
RetainedAt(i) ==
    keep_signatures.none \/ step_signature(effective_steps[i]) \in keep_signatures.sigs

\* no candidate of the step's own locator set or of its nested element
\* normalizes to a non-empty selector
NoCandidateSelector(step) ==
    \A c \in {step.locators.css, step.locators.playwright, step.locators.stable,
              step.locators.xpath, step.locators.raw_xpath, step.locators.selector,
              step.element.css, step.element.playwright, step.element.stable,
              step.element.xpath, step.element.raw_xpath} :
       Len(normalize_selector(c)) = 0

\* C3: a compilation in which some retained step has no candidate selector
\* ends in an error and surfaces no artifact, whatever was resolved before
\* the failing step; no payload exists before a compilation is done.
C3_AllOrNothing ==
    /\ pc # "done" => result = NoPayload
    /\ (Terminal /\ \E i \in 1..Len(effective_steps) :
                       RetainedAt(i) /\ NoCandidateSelector(effective_steps[i]))
       => (pc = "failed" /\ error = "ValueError: no selector resolved")

C3_Witness ==
    /\ pc = "failed"
    /\ error = "ValueError: no selector resolved"
    /\ Len(entries) > 0
    /\ Len(step_refs) > 0
    /\ result = NoPayload

\* C4: retained steps whose resolved selectors are identical carry the same
\* symbol, and the locator table has at most one entry per selector.
C4_OneSymbolPerSelector ==
    /\ \A i, j \in 1..Len(step_refs) :
          resolve_selector(step_refs[i].raw) = resolve_selector(step_refs[j].raw)
          => step_refs[i].key = step_refs[j].key
    /\ \A a, b \in 1..Len(entries) : entries[a][2] = entries[b][2] => a = b
    /\ pc = "done" => result.locators[1].content = entries

C4_Witness ==
    /\ pc = "done"
    /\ \E i, j \in 1..Len(step_refs) :
          /\ i < j
          /\ step_refs[i].raw.locators.css # step_refs[j].raw.locators.css
          /\ resolve_selector(step_refs[i].raw) = resolve_selector(step_refs[j].raw)
          /\ step_refs[i].handled_by # "login"
          /\ Cardinality({a \in 1..Len(entries) :
                             entries[a][2] = resolve_selector(step_refs[i].raw)}) = 1

\* C5: the functional steps of the emitted test script are numbered
\* 0, 1, 2, ... from 0 without gaps, with or without the navigation step.
C5_FunctionalStepsNumberedFromZero ==
    pc = "done"
    => LET steps == FunctionalSteps(result)
       IN \A i \in 1..Len(steps) : steps[i].number = i - 1

RECURSIVE IsSubsequence(_, _)
IsSubsequence(a, b) ==
    IF Len(a) = 0 THEN TRUE
    ELSE IF Len(b) = 0 THEN FALSE
    ELSE IF a[1] = b[1] THEN IsSubsequence(Tail(a), Tail(b))
    ELSE IsSubsequence(a, Tail(b))

StrictlyAscending(numbers) ==
    \A i, j \in 1..Len(numbers) : i < j => numbers[i] < numbers[j]

\* C6: whatever order the documents were listed in, the input step list is in
\* ascending ordinal order, and the steps handed to the build, the steps the
\* loop visits, the resolved steps and the functional steps of the test
\* script are order-preserving subsequences of it.
C6_OrderPreserved ==
    /\ StrictlyAscending([i \in 1..Len(vector_steps) |-> vector_steps[i].step])
    /\ IsSubsequence(build_steps, vector_steps)
    /\ IsSubsequence(effective_steps, vector_steps)
    /\ IsSubsequence([i \in 1..Len(step_refs) |-> step_refs[i].raw], vector_steps)
    /\ pc = "done"
       => LET steps    == FunctionalSteps(result)
              resolved == SelectIdx(step_refs,
                             {i \in 1..Len(step_refs) : step_refs[i].handled_by # "login"}, 1)
          IN [i \in 1..Len(steps) |-> steps[i].ordinal]
                = [i \in 1..Len(resolved) |-> resolved[i].raw.step]

C6_Witness ==
    /\ pc = "done"
    /\ ~StrictlyAscending([i \in 1..Len(docs) |-> docs[i].step_index])
    /\ Len(step_refs) < Len(vector_steps)
    /\ Len(FunctionalSteps(result)) >= 2

\* C7: when the preview yields fewer than 2 distinct signatures (fewer than 2
\* parsed lines, an empty preview, or parsed lines with the same signature),
\* the invocation filters nothing: every input step is visited by the loop,
\* and a finished compilation has compiled every input step.
C7_FewSignaturesKeepEveryStep ==
    (Terminal /\ Len(vector_steps) > 0 /\ Cardinality(ParsedSignatures) < 2)
    => /\ error \in {"", "ValueError: no selector resolved"}
       /\ keep_signatures.none
       /\ effective_steps = vector_steps
       /\ pc = "done" => Len(step_refs) = Len(vector_steps)

\* C8: an invocation for a flow without steps raises the input error before
\* any reconciliation, resolution or emission, and returns no payload.
C8_NoStepsIsInputError ==
    (pc # "idle" /\ Len(docs) = 0)
    => /\ pc = "failed"
       /\ error = "ValueError: no refined recorder steps"
       /\ result = NoPayload
       /\ build_steps = <<>>
       /\ effective_steps = <<>>
       /\ step_refs = <<>>
       /\ entries = <<>>

C8_Witness ==
    /\ pc = "failed"
    /\ Len(docs) = 0
    /\ Len(preview) > 0
    /\ error = "ValueError: no refined recorder steps"
    /\ result = NoPayload

\* C9: an invocation with the inputs of an earlier invocation on the same
\* agent ends as that one did, with the same error or the same payload,
\* whatever was compiled in between; and the loop of a compilation starts
\* from empty symbol, entry, binding and method-name tables.
C9_SameInputsSameArtifacts ==
    /\ (Terminal /\ first_run.done /\ first_run.docs = docs
          /\ first_run.preview = preview /\ first_run.framework = framework)
       => (pc = first_run.pc /\ error = first_run.error /\ result = first_run.result)
    /\ (pc = "resolving" /\ index = 0)
       => /\ selector_to_key = {} /\ used_keys = {} /\ entries = <<>>
          /\ entry_keys = {} /\ step_refs = <<>> /\ data_bindings = <<>>
          /\ method_names = {}

C9_Witness ==
    /\ pc = "done"
    /\ runs = 3
    /\ first_run.done
    /\ first_run.run = 1
    /\ first_run.docs = docs
    /\ first_run.preview = preview
    /\ first_run.pc = "done"
    /\ Len(result.pages[1].content.methods) = 2
    /\ result = first_run.result

\* the steps bound to a data key: not diverted to login, with a data key
BoundAt(i) ==
    step_refs[i].handled_by # "login" /\ Len(extract_data_key(step_refs[i].raw)) > 0

\* 0-based occurrence of step i among the bound steps with its data key
OccurrenceAt(i) ==
    Cardinality({p \in 1..(i - 1) :
        BoundAt(p) /\ extract_data_key(step_refs[p].raw) = extract_data_key(step_refs[i].raw)})

\* the functional step emitted for step i
TestStepOf(i) ==
    CHOOSE t \in Range(FunctionalSteps(result)) : t.ordinal = step_refs[i].raw.step

\* the page methods that applyData(row, keys, index) of the payload runs
MethodsRun(keys, idx) ==
    LET page  == result.pages[1].content
        names == ApplyDataCalls(page.apply_data, keys, idx, 1)
    IN {m \in Range(page.methods) : m.name \in Range(names)}

\* C10: the test step of the n-th step bound to data key K calls applyData with
\* keys [K] and index n, and that call runs a generated method acting on the
\* step's own locator symbol; bound steps sharing a key get distinct methods.
C10_ApplyDataAddressesOccurrence ==
    pc = "done"
    => \A i \in 1..Len(step_refs) :
          BoundAt(i)
          => LET t == TestStepOf(i)
                 K == extract_data_key(step_refs[i].raw)
             IN /\ t.op = "applyData"
                /\ t.keys = <<K>>
                /\ t.index = OccurrenceAt(i)
                /\ \E m \in MethodsRun(<<K>>, OccurrenceAt(i)) :
                      m.locator_key = step_refs[i].key
                /\ \A j \in 1..Len(step_refs) :
                      (BoundAt(j) /\ j # i)
                      => MethodsRun(t.keys, t.index)
                            # MethodsRun(TestStepOf(j).keys, TestStepOf(j).index)

C10_Witness ==
    /\ pc = "done"
    /\ \E i, j \in 1..Len(step_refs) :
          /\ i < j
          /\ BoundAt(i) /\ BoundAt(j)
          /\ extract_data_key(step_refs[i].raw) = extract_data_key(step_refs[j].raw)
          /\ step_refs[i].key # step_refs[j].key
          /\ TestStepOf(i).index = 0
          /\ TestStepOf(j).index = 1
          /\ Cardinality(MethodsRun(TestStepOf(j).keys, 1)) = 1
\* C11: when persist_payload is called on the payload of a finished
\* compilation it returns, and what it returns is the three artifact paths
\* under the framework root, each once: locators, page, test.
C11_PersistReturnsThreePaths ==
    (pc = "done" /\ persist_pc \notin {"idle", "running"})
    => /\ persist_pc = "returned"
       /\ written_paths = << ResolvePath(locators_path), ResolvePath(page_path),
                             ResolvePath(test_path) >>

\* the steps compiled so far that were not diverted to login handling
NotDiverted == {i \in 1..Len(step_refs) : step_refs[i].handled_by # "login"}

\* the navigation text or the derived symbol of a compiled step holds an
\* authentication keyword
AuthKeywordAt(i) ==
    \/ \E term \in login_keywords : Contains(Lower(step_refs[i].raw.navigation), term)
    \/ \E candidate \in login_key_candidates : Contains(Lower(step_refs[i].key), candidate)

\* C12: a step is diverted to login handling only if a login page was
\* discovered and its navigation text or symbol holds an authentication
\* keyword; without a login page no step is diverted and every retained step
\* has its symbol in the locator table and a functional test step; diverted
\* steps add no locator entry, no data binding and no test step.
C12_LoginDiversion ==
    pc \in {"resolving", "done"}
    => /\ \A i \in 1..Len(step_refs) :
             step_refs[i].handled_by = "login"
             => (framework.login_page_file /\ AuthKeywordAt(i))
       /\ ~framework.login_page_file
          => /\ NotDiverted = 1..Len(step_refs)
             /\ \A i \in 1..Len(step_refs) :
                   \E e \in 1..Len(entries) : entries[e][1] = step_refs[i].key
             /\ pc = "done"
                => /\ Len(step_refs) =
                        Cardinality({i \in 1..Len(effective_steps) : RetainedAt(i)})
                   /\ Len(FunctionalSteps(result)) = Len(step_refs)
       /\ {entries[e][1] : e \in 1..Len(entries)} = {step_refs[i].key : i \in NotDiverted}
       /\ Len(entries) = Cardinality({step_refs[i].key : i \in NotDiverted})
       /\ Len(data_bindings) =
             Cardinality({i \in NotDiverted : Len(extract_data_key(step_refs[i].raw)) > 0})
       /\ \A b \in 1..Len(data_bindings) :
             \E i \in NotDiverted : step_refs[i].key = data_bindings[b].locator_key
       /\ pc = "done"
          => /\ Len(FunctionalSteps(result)) = Cardinality(NotDiverted)
             /\ \A s \in 1..Len(FunctionalSteps(result)) :
                   \E i \in NotDiverted : step_refs[i].key = FunctionalSteps(result)[s].key

\* a finished compilation of three steps that diverted a data-entry step of
\* the sign-in form and kept another step in the locator table
C12_Witness ==
    /\ pc = "done"
    /\ framework.login_page_file
    /\ \E i \in 1..Len(step_refs) :
          /\ step_refs[i].handled_by = "login"
          /\ Len(extract_data_key(step_refs[i].raw)) > 0
    /\ NotDiverted # {}
    /\ Len(entries) > 0
    /\ Len(step_refs) = 3

MatchText(step) ==
    normalize_for_match(IF Len(step.navigation) > 0 THEN step.navigation ELSE step.action)

\* text overlaps some phrase: it holds the phrase or the phrase holds it
Overlaps(text, phrases) ==
    /\ Len(text) > 0
    /\ \E p \in phrases : Contains(text, p) \/ Contains(p, text)

\* the preview phrases: action and navigation columns of the preview lines
PreviewPhrases == extract_preview_phrases(preview).phrases

\* the steps of the flow whose text overlaps some phrase
PhraseMatchedBy(phrases) ==
    {i \in 1..Len(vector_steps) : Overlaps(MatchText(vector_steps[i]), phrases)}

\* the steps of the flow whose signature is one of sigs
SignatureMatchedBy(sigs) ==
    {i \in 1..Len(vector_steps) : step_signature(vector_steps[i]) \in sigs}

\* the preview has 2 or more signatures, none of them the signature of a
\* step, and a phrase that overlaps the navigation text of some step
FuzzyCaseWith(sigs, phrases) ==
    /\ Cardinality(sigs) >= 2
    /\ SignatureMatchedBy(sigs) = {}
    /\ \E i \in 1..Len(vector_steps) :
          Overlaps(normalize_for_match(vector_steps[i].navigation), phrases)

FuzzyCase == FuzzyCaseWith(ParsedSignatures, PreviewPhrases)

\* C13: in that case the steps handed to compilation, and compiled by a
\* finished compilation, are exactly the steps that match some phrase, in
\* order, with no signature filter left in force; they are at least one
\* step, and all steps only when every step matches.
C13_FuzzyFallback ==
    pc \in {"building", "resolving", "done"}
    => LET phrases == PreviewPhrases
           matched == PhraseMatchedBy(phrases)
       IN FuzzyCaseWith(ParsedSignatures, phrases)
          => /\ build_steps = SelectIdx(vector_steps, matched, 1)
             /\ Len(build_steps) > 0
             /\ keep_signatures.none
             /\ build_steps = vector_steps => matched = 1..Len(vector_steps)
             /\ pc = "done"
                => /\ Len(step_refs) = Len(build_steps)
                   /\ \A i \in 1..Len(step_refs) : step_refs[i].raw = build_steps[i]

\* a finished compilation that kept a step whose navigation text is part of
\* a longer preview phrase and dropped another step of the flow
C13_Witness ==
    /\ pc = "done"
    /\ FuzzyCase
    /\ preview = <<LinePressOpenPage, LineTapA>>
    /\ Len(step_refs) = 2
    /\ Len(vector_steps) = 3
    /\ \E i \in 1..Len(step_refs) : step_refs[i].raw.navigation = <<"O","p","e","n">>

\* C18: with 2 or more preview signatures, a finished compilation has
\* compiled the phrase-matched steps when the signature filter retains no
\* step or fewer than half the number of preview phrases (and some step
\* matches a phrase), and exactly the signature-matched steps when it
\* retains at least one step and at least half that number.
C18_FuzzyOnlyBelowHalf ==
    pc = "done"
    => LET sigs     == ParsedSignatures
           phrases  == PreviewPhrases
           by_sig   == SignatureMatchedBy(sigs)
           by_text  == PhraseMatchedBy(phrases)
           below    == by_sig = {} \/ 2 * Cardinality(by_sig) < Cardinality(phrases)
           compiled == [i \in 1..Len(step_refs) |-> step_refs[i].raw]
       IN Cardinality(sigs) >= 2
          => /\ (below /\ by_text # {}) => compiled = SelectIdx(vector_steps, by_text, 1)
             /\ (~below) => compiled = SelectIdx(vector_steps, by_sig, 1)

\* the selector stored for the symbol of the i-th compiled step
StoredSelector(i) ==
    (CHOOSE e \in selector_to_key : e[2] = step_refs[i].key)[1]

\* the selector holds a structural marker: " > ", " + ", " ~ ", :nth-child(
\* or :nth-of-type(
HasStructure(selector) ==
    \E marker \in StructureMarkers : Contains(Strip(selector), marker)

NoSpaces(s) == DropChars(s, SpaceSet)

\* the compiled steps whose recorded css selector is structural
StructuralSteps == {i \in 1..Len(step_refs) : HasStructure(step_refs[i].raw.locators.css)}

WellSpaced(s) ==
    \A k \in 1..Len(s) :
       s[k] \in SpaceSet
       => /\ s[k] = " "
          /\ 1 < k /\ k < Len(s)
          /\ s[k - 1] \notin (SpaceSet \cup CombinatorSet)
          /\ s[k + 1] \notin (SpaceSet \cup CombinatorSet)

\* the places of s where whitespace alone separates two compound selectors
DescendantGaps(s) ==
    {k \in 1..(Len(s) - 1) :
        /\ s[k] \notin (SpaceSet \cup CombinatorSet)
        /\ s[k + 1] \in SpaceSet
        /\ \E n \in (k + 2)..Len(s) :
              /\ s[n] \notin (SpaceSet \cup CombinatorSet)
              /\ \A m \in (k + 1)..(n - 1) : s[m] \in SpaceSet}

Candidates(step) ==
    << step.locators.css, step.locators.playwright, step.locators.stable,
       step.locators.xpath, step.locators.raw_xpath, step.locators.selector,
       step.element.css, step.element.playwright, step.element.stable,
       step.element.xpath, step.element.raw_xpath >>

\* the normalization of the first candidate that normalizes to a non-empty
\* string, <<>> when there is none
FirstUsable(step) ==
    LET usable == {k \in 1..Len(Candidates(step)) :
                      Len(normalize_selector(Candidates(step)[k])) > 0}
    IN IF usable = {} THEN <<>>
       ELSE normalize_selector(Candidates(step)[SetMin(usable)])

\* C19: the selector resolved for a compiled step is the normalization of
\* its highest-priority candidate that yields a non-empty string, and
\* resolution fails only for a step none of whose candidates yields one.
C19_HighestPriorityCandidate ==
    /\ pc \in {"resolving", "done"}
       => \A i \in 1..Len(step_refs) : StoredSelector(i) = FirstUsable(step_refs[i].raw)
    /\ (pc = "failed" /\ error = "ValueError: no selector resolved")
       => NoCandidateSelector(effective_steps[index + 1])

\* the compiled steps at which a selector is seen for the first time
FirstSeen == {i \in 1..Len(step_refs) : \A j \in 1..(i - 1) : StoredSelector(j) # StoredSelector(i)}

\* the base identifier of the i-th compiled step (no filter is in force, so
\* its position in the loop is i - 1)
BaseOf(i) == base_key(step_refs[i].raw, i - 1)

SymbolsBefore(i) == {step_refs[j].key : j \in 1..(i - 1)}

\* different resolved selectors have different symbols
DistinctSymbols ==
    \A e1, e2 \in selector_to_key : e1[2] = e2[2] => e1[1] = e2[1]

\* the symbol is base followed by the smallest number from 2 up that gives
\* a name not in used
SmallestSuffix(symbol, base, used) ==
    \E n \in 2..(Cardinality(used) + 2) :
       /\ symbol = base \o NatStr(n)
       /\ symbol \notin used
       /\ \A m \in 2..(n - 1) : (base \o NatStr(m)) \in used

\* C20 as stated: different selectors never share a symbol; the first
\* selector seen with a base identifier keeps the bare name and each later
\* different selector with that base identifier gets the base plus the
\* smallest unused numeric suffix from 2 up.
C20_FirstWithBaseKeepsBareName ==
    pc \in {"resolving", "done"}
    => /\ DistinctSymbols
       /\ \A i \in FirstSeen :
             IF \A j \in FirstSeen : j < i => BaseOf(j) # BaseOf(i)
             THEN step_refs[i].key = BaseOf(i)
             ELSE SmallestSuffix(step_refs[i].key, BaseOf(i), SymbolsBefore(i))

\* C20 amended: different selectors never share a symbol; a selector whose
\* base identifier is not yet in use as a symbol keeps the bare name, and one
\* whose base identifier is in use, by an earlier selector with that base or
\* by an earlier suffixed symbol, gets the base plus the smallest unused
\* numeric suffix from 2 up.
C20_UnusedBareNameElseSuffix ==
    pc \in {"resolving", "done"}
    => /\ DistinctSymbols
       /\ \A i \in FirstSeen :
             IF BaseOf(i) \notin SymbolsBefore(i)
             THEN step_refs[i].key = BaseOf(i)
             ELSE SmallestSuffix(step_refs[i].key, BaseOf(i), SymbolsBefore(i))

\* three different selectors: the first two share a base identifier, and the
\* bare name of the third is the suffixed symbol of the second
C20_Witness ==
    /\ pc = "done"
    /\ Len(step_refs) = 3
    /\ FirstSeen = {1, 2, 3}
    /\ BaseOf(1) = BaseOf(2)
    /\ BaseOf(3) = step_refs[2].key
    /\ step_refs[3].key = BaseOf(3) \o <<"2">>

\* the positions of a trace recorded on an authentication provider
AuthPositions(call) ==
    {i \in 1..Len(call.actions) : on_auth_domain(call.actions[i])}

\* the positions of a trace recorded on the original domain after the first
\* action on an authentication provider
ReturnPositions(call) ==
    {i \in 1..Len(call.actions) :
        /\ i > SetMin(AuthPositions(call))
        /\ ~on_auth_domain(call.actions[i])
        /\ Len(call.actions[i].pageUrl) > 0
        /\ on_target_domain(call.actions[i], call.original_url)}

\* the trace leaves the original domain for an authentication provider and
\* later returns
LeavesAndReturns(call) ==
    /\ Len(call.original_url) > 0
    /\ AuthPositions(call) # {}
    /\ ReturnPositions(call) # {}
    /\ \E i \in 1..(SetMin(AuthPositions(call)) - 1) :
          /\ Len(call.actions[i].pageUrl) > 0
          /\ on_target_domain(call.actions[i], call.original_url)

\* C16: given an original URL and a trace that leaves the original domain
\* for an authentication provider and later returns, _filter_auth_steps keeps
\* only actions recorded from the first return to the original domain
\* onwards, in their recorded order; every earlier action, including one
\* recorded on the original domain before the authentication, is removed.
C16_KeepsOnlyFromFirstReturn ==
    (auth_pc = "returned" /\ LeavesAndReturns(auth_args))
    => \E keep \in SUBSET (SetMin(ReturnPositions(auth_args))..Len(auth_args.actions)) :
          auth_kept = SelectIdx(auth_args.actions, keep, 1)

\* C17: build_refined_flow_from_metadata emits the refined steps in
\* non-decreasing order of their actions' timestamps, whatever the order of
\* the actions in the metadata, and numbers them 1..n in that order.
C17_StepsInTimestampOrder ==
    ingest_pc = "returned"
    => /\ \A i \in 1..Len(refined_steps) : refined_steps[i].step = i
       /\ \A i, j \in 1..Len(refined_steps) :
             i < j => refined_steps[i].source.timestamp <= refined_steps[j].source.timestamp

\* three steps are emitted for a recording whose actions arrive latest first
C17_Witness ==
    /\ ingest_pc = "returned"
    /\ Len(refined_steps) = 3
    /\ metadata.actions[1].timestamp > metadata.actions[2].timestamp
    /\ metadata.actions[2].timestamp > metadata.actions[3].timestamp

\* C21: when locator resolution fails, the error names the failing step's
\* recorded 1-based step number in the input flow, with its action and
\* navigation text, also when reconciliation dropped steps before it.
C21_ErrorNamesRecordedStep ==
    (pc = "failed" /\ error = "ValueError: no selector resolved")
    => LET step == effective_steps[index + 1]
       IN no_selector_message(index, step) =
             [ordinal |-> step.step, action |-> step.action, navigation |-> step.navigation]

\* the selector holds a child or sibling combinator or :nth-child, with or
\* without spaces around it
HasCombinator(selector) ==
    \/ \E k \in 1..Len(selector) : selector[k] \in {">", "+", "~"}
    \/ Contains(selector, <<":","n","t","h","-","c","h","i","l","d">>)

\* C22: a selector containing a child (>) or sibling (+, ~) combinator or
\* :nth-child, with or without spaces around the combinator, is never
\* rewritten into the ID-based XPath form.
C22_CombinatorNeverReducedToId ==
    pc \in {"resolving", "done"}
    => \A i \in 1..Len(step_refs) :
          LET recorded == step_refs[i].raw.locators.css
          IN (Len(Strip(recorded)) > 0 /\ HasCombinator(recorded))
             => ~StartsWith(StoredSelector(i), <<"x","p","a","t","h","=","/","/","*","[","@","i","d","=">>)

\* the compiled steps that qualify for a data binding: a non-empty data key
\* and no login diversion
QualifyingSteps ==
    {i \in 1..Len(step_refs) :
        Len(extract_data_key(step_refs[i].raw)) > 0 /\ step_refs[i].handled_by # "login"}

\* the methods of the emitted page class
EmittedMethods == result.pages[1].content.methods

\* the qualifying steps in step order
QualifyingRefs == SelectIdx(step_refs, QualifyingSteps, 1)

\* the prefixed camel-cased name each qualifying step asks for
MethodCandidates ==
    LET refs == QualifyingRefs
    IN [k \in 1..Len(refs) |-> method_candidate(refs[k].raw, refs[k].key)]

\* one method per qualifying step, in step order, under pairwise distinct names
OneDistinctMethodPerStep(refs, methods) ==
    /\ Len(methods) = Len(refs)
    /\ \A k \in 1..Len(methods) : methods[k].locator_key = refs[k].key
    /\ \A k, m \in 1..Len(methods) : k # m => methods[k].name # methods[m].name

\* C23 as stated: the method names of a compilation are pairwise distinct,
\* one method is generated per qualifying step, the first binding with a
\* given prefixed name keeps it and each later binding with that name gets the
\* smallest unused numeric suffix from 2 up.
C23_FirstWithNameKeepsIt ==
    pc = "done"
    => LET methods == EmittedMethods
           cands   == MethodCandidates
       IN /\ OneDistinctMethodPerStep(QualifyingRefs, methods)
          /\ \A k \in 1..Len(methods) :
                IF \A m \in 1..(k - 1) : cands[m] # cands[k]
                THEN methods[k].name = cands[k]
                ELSE SmallestSuffix(methods[k].name, cands[k],
                                    {methods[m].name : m \in 1..(k - 1)})

\* C23 amended: the method names of a compilation are pairwise distinct, one
\* method is generated per qualifying step, a binding whose prefixed name is
\* not yet in use as a method name keeps it, and one whose name is in use, by
\* an earlier binding with that name or by an earlier suffixed name, gets the
\* name plus the smallest unused numeric suffix from 2 up.
C23_UnusedNameElseSuffix ==
    pc = "done"
    => LET methods == EmittedMethods
           cands   == MethodCandidates
       IN /\ OneDistinctMethodPerStep(QualifyingRefs, methods)
          /\ \A k \in 1..Len(methods) :
                IF cands[k] \notin {methods[m].name : m \in 1..(k - 1)}
                THEN methods[k].name = cands[k]
                ELSE SmallestSuffix(methods[k].name, cands[k],
                                    {methods[m].name : m \in 1..(k - 1)})

\* two bindings ask for the same name, a third asks for the suffixed name of
\* the second
C23_Witness ==
    /\ pc = "done"
    /\ Len(EmittedMethods) = 3
    /\ LET cands == MethodCandidates
       IN /\ cands[1] = cands[2]
          /\ cands[3] = EmittedMethods[2].name
          /\ EmittedMethods[3].name = cands[3] \o <<"2">>

\* C24: an invocation ends in exactly one of Done or Failed, and Failed is
\* entered only from the initial input check (no steps) or from locator
\* resolution (a step without selector), never from reconciliation, binding
\* or emission.
C24_FailedOnlyFromInputCheckOrResolution ==
    /\ pc = "done" => error = ""
    /\ pc = "failed"
       => \/ /\ error = "ValueError: no refined recorder steps"
             /\ Len(vector_steps) = 0
          \/ /\ error = "ValueError: no selector resolved"
             /\ index < Len(effective_steps)
             /\ Len(resolve_selector(effective_steps[index + 1])) = 0

\* what _deduplicate_actions returned in the call of line 346
Deduplicated == deduplicate_actions(SortedByTimestamp(metadata.actions))

\* C25: in the list _deduplicate_actions returns no two adjacent actions
\* share the same non-empty CSS selector or the same non-empty XPath.
C25_NoAdjacentActionsOnOneElement ==
    ingest_pc # "idle"
    => LET kept == Deduplicated
       IN \A i \in 1..(Len(kept) - 1) :
             /\ ~(Len(kept[i].css) > 0 /\ kept[i].css = kept[i + 1].css)
             /\ ~(Len(kept[i].xpath) > 0 /\ kept[i].xpath = kept[i + 1].xpath)

\* the symbol is declared exactly once in the locator table
DeclaredOnce(table, key) ==
    Cardinality({i \in 1..Len(table) : table[i][1] = key}) = 1

\* C26: after a successful compilation every symbol referenced by a test
\* step, by the wait of the navigation step, by a page accessor or by a
\* data-binding method is declared exactly once in the locator table, and
\* every entry of the table belongs to a retained step that was not diverted
\* to login.
C26_SymbolsDeclaredOnce ==
    pc = "done"
    => LET table == result.locators[1].content
           page  == result.pages[1].content
           steps == result.tests[1].content
       IN /\ \A i \in 1..Len(steps) :
                Len(steps[i].key) > 0 => DeclaredOnce(table, steps[i].key)
          /\ \A i \in 1..Len(page.accessors) : DeclaredOnce(table, page.accessors[i])
          /\ \A i \in 1..Len(page.methods) : DeclaredOnce(table, page.methods[i].locator_key)
          /\ \A i \in 1..Len(table) :
                \E j \in 1..Len(step_refs) :
                   /\ step_refs[j].key = table[i][1]
                   /\ step_refs[j].handled_by # "login"

\* a compilation with a login-diverted first step, a navigation step that
\* waits for a symbol and a data-binding method
C26_Witness ==
    /\ pc = "done"
    /\ Len(step_refs) = 3
    /\ step_refs[1].handled_by = "login"
    /\ result.tests[1].content[1].kind = "navigate"
    /\ Len(result.tests[1].content[1].key) > 0
    /\ Len(result.pages[1].content.methods) > 0

\* C27: for every functional test step bound to a data key, running its
\* emitted applyData call (keys = [K], index = n) runs exactly one
\* generated page method, also when two data keys of the flow differ only in
\* letter case or in non-alphanumeric characters.
C27_ApplyDataRunsOneMethod ==
    pc = "done"
    => LET blocks == result.pages[1].content.apply_data
           steps  == result.tests[1].content
       IN \A i \in 1..Len(steps) :
             steps[i].op = "applyData"
             => Len(ApplyDataCalls(blocks, steps[i].keys, steps[i].index, 1)) = 1

\* C28: compiling a flow of two or more steps with the accepted preview equal
\* to the text _format_steps_for_prompt produces for it retains every step,
\* including steps without action text, navigation text or both.
C28_DefaultPreviewRetainsEveryStep ==
    (pc \in {"done", "failed"} /\ Len(vector_steps) >= 2
        /\ preview = format_steps_for_prompt(vector_steps))
    => /\ pc = "done"
       /\ [i \in 1..Len(step_refs) |-> step_refs[i].raw] = vector_steps

\* C29: in the emitted page class no data-binding method name equals a
\* locator accessor symbol, and neither a method name nor a locator symbol
\* equals a fixed member of the page.
C29_PageMembersDistinct ==
    pc = "done"
    => LET page      == result.pages[1].content
           accessors == {page.accessors[i] : i \in 1..Len(page.accessors)}
           methods   == {page.methods[i].name : i \in 1..Len(page.methods)}
       IN /\ accessors \cap methods = {}
          /\ (accessors \cup methods) \cap fixed_members(data_bindings, framework.helper) = {}

\* the fuzzy filter of lines 1282-1299 left the step out of the build, or the
\* signature filter in force does not hold the step's signature
Dropped(step) ==
    \/ step \notin Range(build_steps)
    \/ ~keep_signatures.none /\ step_signature(step) \notin keep_signatures.sigs

\* C30: locator resolution is applied only to steps retained by
\* reconciliation: a step dropped by the signature filter or by the fuzzy
\* filter never causes the failure of the compilation, even with no usable
\* selector, and contributes no step reference, no symbol, no data binding
\* and no increment of the step counter of the test script: a finished
\* compilation has one step reference per retained step and one consecutively
\* numbered functional step per retained step not diverted to login.
C30_DroppedStepsLeaveNoTrace ==
    /\ (pc = "failed" /\ error = "ValueError: no selector resolved")
       => ~Dropped(effective_steps[index + 1])
    /\ \A i \in 1..Len(step_refs) : ~Dropped(step_refs[i].raw)
    /\ \A a \in 1..Len(entries) :
          \E i \in 1..Len(step_refs) :
             /\ step_refs[i].key = entries[a][1]
             /\ resolve_selector(step_refs[i].raw) = entries[a][2]
    /\ \A b \in 1..Len(data_bindings) :
          \E i \in 1..Len(step_refs) :
             /\ step_refs[i].method_name = data_bindings[b].method_name
             /\ step_refs[i].key = data_bindings[b].locator_key
    /\ pc = "done"
       => LET steps == FunctionalSteps(result)
          IN /\ Len(step_refs) =
                   Cardinality({i \in 1..Len(vector_steps) : ~Dropped(vector_steps[i])})
             /\ Len(steps) =
                   Cardinality({i \in 1..Len(step_refs) : step_refs[i].handled_by # "login"})
             /\ \A i \in 1..Len(steps) :
                   /\ \E j \in 1..Len(vector_steps) :
                         /\ vector_steps[j].step = steps[i].ordinal
                         /\ ~Dropped(vector_steps[j])
                   /\ i > 1 => steps[i].number = steps[i - 1].number + 1

C30_Witness ==
    /\ pc = "done"
    /\ ~keep_signatures.none
    /\ Len(FunctionalSteps(result)) >= 2
    /\ \E i \in 1..Len(vector_steps) :
          /\ i < Len(vector_steps)
          /\ Dropped(vector_steps[i])
          /\ NoCandidateSelector(vector_steps[i])
          /\ ~Dropped(vector_steps[i + 1])

====
